---- MODULE Spec2Model ----
(***************************************************************************)
(* Model of suzysmb4k.py: the main loop of MarioForever.run, one action    *)
(* per loop iteration (event handling, physics, timer, collisions, camera, *)
(* draw).                                                                  *)
(*                                                                         *)
(* Numbers.  Positions and velocities are Python floats.  Every value they *)
(* take is held here as an integer count of 1/Unit pixel: 0.75, 0.375,     *)
(* 0.1, 5.0, 7.5, 12.0, -15.0 and -10 are exact multiples of 1/40, so      *)
(* gravity, the jump, the stomp bounce and air control are exact.  The     *)
(* three products by 0.3, 0.85 and 0.95 (horizontal easing and damping)    *)
(* and the camera's 0.08 are cut toward zero to 1/Unit.                    *)
(* pygame.Rect(x, y, w, h) converts float arguments to int by cutting      *)
(* toward zero, and colliderect is a strict overlap test.                  *)
(***************************************************************************)
EXTENDS Integers, Sequences, FiniteSets, TLC

VARIABLES state, current_world, current_level, mario, level, camera_x,
          frame, running, keys, events, seed, ticks, limit

\* keys and events are the input that run read in the last iteration and
\* seed the tape its start_level drew from (0 when it made no draw); ticks
\* counts the iterations taken since the initial state, at most limit
vars == <<state, current_world, current_level, mario, level, camera_x,
          frame, running, keys, events, seed, ticks, limit>>

\* ---------------------------------------------------------------- constants
Unit == 40
SCREEN_WIDTH == 800
SCREEN_HEIGHT == 600
FPS == 60
TILE_SIZE == 32
GRAVITY == (75 * Unit) \div 100
JUMP_POWER == -15 * Unit
WALK_SPEED == 5 * Unit
RUN_SPEED == (75 * Unit) \div 10
SLIDE_THRESHOLD == 3 * Unit
ACCELERATION == 30
DECELERATION == 85
AIR_RESISTANCE == 95
CAMERA_EASE == 8
JUMP_EXTENSION_TIME == 12
TERMINAL_VELOCITY == 12 * Unit
AIR_CONTROL == Unit \div 10
STOMP_BOUNCE == -10 * Unit
FALL_MARGIN == 100
LEVEL_TIME == 400
COIN_FADE == 30
COINS_PER_LIFE == 100
START_LIVES == 3
HIT_TIME == 10
HURT_TIME == 120
LEVELS_PER_WORLD == 4
WORLDS == 8

MENU == 0
PLAYING == 1
WORLD_MAP == 2
GAME_OVER == 3

\* ------------------------------------------------------------------ helpers
Min2(a, b) == IF a <= b THEN a ELSE b
Max2(a, b) == IF a >= b THEN a ELSE b
Abs(a) == IF a >= 0 THEN a ELSE -a

\* a / b cut toward zero (Python int(), and the cut of a float product)
DivT(a, b) == IF a >= 0 THEN a \div b ELSE -((-a) \div b)

\* int(v) of a float held in 1/Unit pixels
ToInt(v) == DivT(v, Unit)

\* an int pixel value as a float
Px(n) == n * Unit

\* pygame.Rect(x, y, w, h): x, y floats in 1/Unit; w, h ints
Rect(x, y, w, h) ==
  [left |-> ToInt(x), top |-> ToInt(y),
   right |-> ToInt(x) + w, bottom |-> ToInt(y) + h]

colliderect(a, b) ==
  /\ a.left < b.right
  /\ a.top < b.bottom
  /\ a.right > b.left
  /\ a.bottom > b.top

\* the sequence s without its i-th element
RemoveAt(s, i) == [j \in 1..(Len(s) - 1) |-> IF j < i THEN s[j] ELSE s[j + 1]]

\* ------------------------------------------------------------------- Mario
MARIO_WIDTH == 24
MARIO_HEIGHT == 32

\* Mario.reset: every field, lives, coins and score included
MarioReset ==
  [x |-> Px(100), y |-> Px(300), vx |-> 0, vy |-> 0,
   on_ground |-> FALSE, facing_right |-> TRUE, running |-> FALSE,
   big |-> FALSE, star |-> FALSE, star_timer |-> 0,
   lives |-> START_LIVES, coins |-> 0, score |-> 0,
   invincible |-> 0, jump_frames |-> 0, sliding |-> FALSE]

\* ------------------------------------------------------------------- Level
\* Block.__init__ (contains is fixed by the type and read by nothing)
Block(x, y, block_type) ==
  [x |-> x, y |-> y, type |-> block_type, hit |-> FALSE, hit_timer |-> 0]

ENEMY_WIDTH == 24
ENEMY_HEIGHT == 24

\* Enemy.__init__
Enemy(x, y, enemy_type) ==
  [x |-> Px(x), y |-> Px(y), vx |-> -Unit, vy |-> 0, type |-> enemy_type,
   alive |-> TRUE, on_ground |-> FALSE, direction |-> -1]

COIN_SIZE == 24

\* Coin.__init__ (bob is read by Coin.draw only)
Coin(x, y) == [x |-> x, y |-> y, collected |-> FALSE, collected_timer |-> 0]

\* for x in range(0, n * TILE_SIZE, TILE_SIZE): Block(x, 500), Block(x, 532)
GroundRun(n) ==
  [i \in 1..(2 * n) |->
     Block(((i - 1) \div 2) * TILE_SIZE,
           IF i % 2 = 1 THEN 500 ELSE 532, "ground")]

\* the random module: the k-th call of a level's generation returns a value
\* of lo..hi fixed by the tape; a tape stands for one run of the generator
TapeVal(tape, k) ==
  CASE tape = 0 -> 0
    [] tape = 1 -> k
    [] OTHER -> tape * k + (k \div 3)

randint(tape, k, lo, hi) == lo + (TapeVal(tape, k) % (hi - lo + 1))

level_length(world, lvl) == 100 + world * 50 + lvl * 30

gap_count(world) == 2 + world
platform_count(world) == 5 + world * 3
pipe_count(world) == 2 + world
enemy_count(world) == 3 + world * 2
coin_count(world) == 10 + world * 5
STAIR_ROWS == 8

\* the i-th set of n consecutive draws after `base` draws, j-th draw of it
DrawAt(base, n, i, j) == base + n * (i - 1) + j

RECURSIVE Platforms(_, _, _, _)
Platforms(tape, base, len, n) ==
  IF n = 0 THEN <<>>
  ELSE LET i == n
           x == randint(tape, DrawAt(base, 4, i, 1), 5, len - 5) * TILE_SIZE
           y == randint(tape, DrawAt(base, 4, i, 2), 8, 12) * TILE_SIZE
           t == IF randint(tape, DrawAt(base, 4, i, 3), 0, 1) = 0
                THEN "brick" ELSE "question"
           c == randint(tape, DrawAt(base, 4, i, 4), 3, 6)
       IN Platforms(tape, base, len, n - 1)
            \o [j \in 1..c |-> Block(x + (j - 1) * TILE_SIZE, y, t)]

\* for i in range(8): for j in range(i + 1): the k-th brick, k in 1..36
StairRow(k) == CHOOSE i \in 0..(STAIR_ROWS - 1) :
                 (i * (i + 1)) \div 2 < k /\ k <= ((i + 1) * (i + 2)) \div 2
StairCol(k) == k - 1 - (StairRow(k) * (StairRow(k) + 1)) \div 2

\* Level.generate_level
GenerateLevel(world, lvl, tape) ==
  LET len == level_length(world, lvl)
      gc == gap_count(world)
      np == platform_count(world)
      npi == pipe_count(world)
      ne == enemy_count(world)
      nc == coin_count(world)
      gap_x(i) == randint(tape, i, 20, len - 20) * TILE_SIZE
      InGap(b) == \E i \in 1..gc :
                    gap_x(i) <= b.x /\ b.x < gap_x(i) + 3 * TILE_SIZE /\ b.y >= 500
      ground == SelectSeq(GroundRun(len), LAMBDA b : ~InGap(b))
      b1 == gc
      b2 == b1 + 4 * np
      b3 == b2 + npi
      b4 == b3 + 1
      b5 == b4 + 2 * ne
      pipes == [i \in 1..npi |->
                  Block(randint(tape, b2 + i, 10, len - 10) * TILE_SIZE, 468, "pipe")]
      stair_x == randint(tape, b3 + 1, 30, len - 30) * TILE_SIZE
      stairs == [k \in 1..((STAIR_ROWS * (STAIR_ROWS + 1)) \div 2) |->
                   Block(stair_x + StairCol(k) * TILE_SIZE,
                         500 - StairRow(k) * TILE_SIZE, "brick")]
      enemies == [i \in 1..ne |->
                    Enemy(randint(tape, DrawAt(b4, 2, i, 1), 10, len - 10) * TILE_SIZE,
                          450,
                          IF randint(tape, DrawAt(b4, 2, i, 2), 0, 9) > 7
                          THEN "koopa" ELSE "goomba")]
      coins == [i \in 1..nc |->
                  Coin(randint(tape, DrawAt(b5, 2, i, 1), 5, len - 5) * TILE_SIZE,
                       randint(tape, DrawAt(b5, 2, i, 2), 6, 12) * TILE_SIZE)]
  IN [world |-> world, level |-> lvl,
      blocks |-> ground \o Platforms(tape, b1, len, np) \o pipes \o stairs,
      enemies |-> enemies, coins |-> coins,
      goal_x |-> (len - 5) * TILE_SIZE, time |-> LEVEL_TIME]

\* Level.__init__ with load_level: 1-1 and 1-2 are fixed, the rest generated
Level(world, lvl, tape) ==
  LET level_id == (world - 1) * 4 + lvl
  IN IF level_id = 1 THEN
       [world |-> world, level |-> lvl,
        blocks |-> GroundRun(200) \o
                   << Block(16 * TILE_SIZE, 400, "question"),
                      Block(20 * TILE_SIZE, 400, "brick"),
                      Block(22 * TILE_SIZE, 400, "question"),
                      Block(80 * TILE_SIZE, 468, "pipe") >>,
        enemies |-> << Enemy(20 * TILE_SIZE, 450, "goomba"),
                       Enemy(30 * TILE_SIZE, 450, "goomba") >>,
        coins |-> << Coin(18 * TILE_SIZE, 380), Coin(21 * TILE_SIZE, 380) >>,
        goal_x |-> 190 * TILE_SIZE, time |-> LEVEL_TIME]
     ELSE IF level_id = 2 THEN
       [world |-> world, level |-> lvl,
        blocks |-> GroundRun(150) \o
                   << Block(10 * TILE_SIZE, 400, "question"),
                      Block(50 * TILE_SIZE, 468, "pipe") >>,
        enemies |-> << Enemy(15 * TILE_SIZE, 450, "koopa") >>,
        coins |-> << Coin(12 * TILE_SIZE, 380) >>,
        goal_x |-> 140 * TILE_SIZE, time |-> LEVEL_TIME]
     ELSE GenerateLevel(world, lvl, tape)

\* self.level = None
NoLevel ==
  [world |-> 0, level |-> 0, blocks |-> <<>>, enemies |-> <<>>,
   coins |-> <<>>, goal_x |-> 0, time |-> 0]

\* ----------------------------------------------------------------- physics
\* the held keys read by Mario.update: a record of four booleans
NoKeys == [left |-> FALSE, right |-> FALSE, space |-> FALSE, shift |-> FALSE]

\* gravity without the clamp to TERMINAL_VELOCITY
FallUnclamped(vy) == vy + GRAVITY

\* min(self.vy + GRAVITY, TERMINAL_VELOCITY)
Fall(vy) == Min2(vy + GRAVITY, TERMINAL_VELOCITY)

\* v * p for a factor p given in hundredths, cut toward zero
Times(v, p) == DivT(v * p, 100)

\* vx += (target_vx - vx) * ACCELERATION
Accelerate(vx, target_vx) == vx + Times(target_vx - vx, ACCELERATION)

\* vx *= DECELERATION if on_ground else AIR_RESISTANCE
Damp(vx, on_ground) ==
  IF on_ground THEN Times(vx, DECELERATION) ELSE Times(vx, AIR_RESISTANCE)

\* Mario.update (self.running is set by run just before the call)
MarioUpdate(m0, k) ==
  LET m == [m0 EXCEPT !.running = k.shift]
      vy1 == IF ~m.on_ground THEN Fall(m.vy) ELSE m.vy
      jf1 == IF ~m.on_ground THEN m.jump_frames ELSE 0
      speed == IF m.running THEN RUN_SPEED ELSE WALK_SPEED
      target_vx == IF k.left THEN -speed ELSE IF k.right THEN speed ELSE 0
      facing == IF k.left THEN FALSE ELSE IF k.right THEN TRUE ELSE m.facing_right
      vx1 == IF target_vx # 0 THEN Accelerate(m.vx, target_vx)
             ELSE Damp(m.vx, m.on_ground)
      extend == jf1 > 0 /\ k.space /\ vy1 < 0
      jump == ~extend /\ k.space /\ m.on_ground
      vy2 == IF extend /\ jf1 <= JUMP_EXTENSION_TIME THEN vy1 + GRAVITY \div 2
             ELSE IF jump THEN JUMP_POWER ELSE vy1
      jf2 == IF extend THEN (IF jf1 <= JUMP_EXTENSION_TIME THEN jf1 + 1 ELSE 0)
             ELSE IF jump THEN 1
             ELSE IF ~k.space THEN 0 ELSE jf1
      og2 == IF jump THEN FALSE ELSE m.on_ground
      vx2 == IF ~og2
             THEN vx1 - (IF k.left THEN AIR_CONTROL ELSE 0)
                      + (IF k.right THEN AIR_CONTROL ELSE 0)
             ELSE vx1
      slide == /\ og2
               /\ Abs(vx2) > SLIDE_THRESHOLD
               /\ \/ (vx2 > 0 /\ target_vx < 0)
                  \/ (vx2 < 0 /\ target_vx > 0)
      st1 == IF m.star_timer > 0 THEN m.star_timer - 1 ELSE m.star_timer
  IN [m EXCEPT !.vx = vx2, !.vy = vy2, !.jump_frames = jf2,
               !.on_ground = og2, !.facing_right = facing,
               !.sliding = slide,
               !.x = m.x + vx2, !.y = m.y + vy2,
               !.star_timer = st1,
               !.star = IF m.star_timer > 0 /\ st1 = 0 THEN FALSE ELSE m.star,
               !.invincible = IF m.invincible > 0 THEN m.invincible - 1
                              ELSE m.invincible]

\* Enemy.update when the turn at a ledge or a wall does not ask whether the
\* enemy is on the ground
EnemyUpdateTurnsInAir(e, blocks) ==
  IF ~e.alive THEN e
  ELSE
    LET vy1 == Fall(e.vy)
        check_x == e.x + (IF e.vx > 0 THEN Px(ENEMY_WIDTH) ELSE Px(-1))
        ground_ahead ==
          \E i \in 1..Len(blocks) :
             /\ blocks[i].type \in {"ground", "brick"}
             /\ Px(blocks[i].x) <= check_x
             /\ check_x < Px(blocks[i].x + TILE_SIZE)
             /\ Px(blocks[i].y) = e.y + Px(ENEMY_HEIGHT)
        wall_ahead ==
          \E i \in 1..Len(blocks) :
             /\ blocks[i].type \in {"brick", "pipe"}
             /\ Px(blocks[i].x) <= check_x
             /\ check_x < Px(blocks[i].x + TILE_SIZE)
             /\ Px(blocks[i].y) <= e.y
             /\ e.y < Px(blocks[i].y + TILE_SIZE)
        turn == ~ground_ahead \/ wall_ahead
        vx1 == IF turn THEN -e.vx ELSE e.vx
    IN [e EXCEPT !.vy = vy1, !.vx = vx1,
                 !.direction = IF turn THEN -e.direction ELSE e.direction,
                 !.x = e.x + vx1, !.y = e.y + vy1]

\* Enemy.update
EnemyUpdate(e, blocks) ==
  IF ~e.alive THEN e
  ELSE
    LET vy1 == Fall(e.vy)
        check_x == e.x + (IF e.vx > 0 THEN Px(ENEMY_WIDTH) ELSE Px(-1))
        ground_ahead ==
          \E i \in 1..Len(blocks) :
             /\ blocks[i].type \in {"ground", "brick"}
             /\ Px(blocks[i].x) <= check_x
             /\ check_x < Px(blocks[i].x + TILE_SIZE)
             /\ Px(blocks[i].y) = e.y + Px(ENEMY_HEIGHT)
        wall_ahead ==
          \E i \in 1..Len(blocks) :
             /\ blocks[i].type \in {"brick", "pipe"}
             /\ Px(blocks[i].x) <= check_x
             /\ check_x < Px(blocks[i].x + TILE_SIZE)
             /\ Px(blocks[i].y) <= e.y
             /\ e.y < Px(blocks[i].y + TILE_SIZE)
        turn == e.on_ground /\ (~ground_ahead \/ wall_ahead)
        vx1 == IF turn THEN -e.vx ELSE e.vx
    IN [e EXCEPT !.vy = vy1, !.vx = vx1,
                 !.direction = IF turn THEN -e.direction ELSE e.direction,
                 !.x = e.x + vx1, !.y = e.y + vy1]

\* Coin.update when the fade timer counts for every coin, collected or not
CoinUpdateCountsAll(c) ==
  IF c.collected_timer < COIN_FADE
  THEN [c EXCEPT !.collected_timer = c.collected_timer + 1]
  ELSE c

\* Coin.update (the bob of an uncollected coin is display only)
CoinUpdate(c) ==
  IF c.collected /\ c.collected_timer < COIN_FADE
  THEN [c EXCEPT !.collected_timer = c.collected_timer + 1]
  ELSE c

\* ------------------------------------------------------------- start_level
\* start_level without the construction of a new Level
StartLevelKeepsLevel(g, tape) ==
  [g EXCEPT !.mario = MarioReset,
            !.camera_x = 0,
            !.state = PLAYING]

\* MarioForever.start_level, on the game record g
StartLevel(g, tape) ==
  [g EXCEPT !.mario = MarioReset,
            !.level = Level(g.current_world, g.current_level, tape),
            !.camera_x = 0,
            !.state = PLAYING]

\* ------------------------------------------------------- handle_collisions
\* pygame.Rect(block.x, block.y, w, h): a pipe is two tiles wide and high
BlockRect(b) ==
  LET size == TILE_SIZE * (IF b.type = "pipe" THEN 2 ELSE 1)
  IN [left |-> b.x, top |-> b.y, right |-> b.x + size, bottom |-> b.y + size]

MarioRect(m) == Rect(m.x, m.y, MARIO_WIDTH, MARIO_HEIGHT)
EnemyRect(e) == Rect(e.x, e.y, ENEMY_WIDTH, ENEMY_HEIGHT)
CoinRect(c) == [left |-> c.x, top |-> c.y,
                right |-> c.x + COIN_SIZE, bottom |-> c.y + COIN_SIZE]

\* the four directional overlaps of rect with a block's rect
Overlaps(rect, br) ==
  [left |-> rect.right - br.left, right |-> br.right - rect.left,
   top |-> rect.bottom - br.top, bottom |-> br.bottom - rect.top]

MinOverlap(o) == Min2(Min2(o.left, o.right), Min2(o.top, o.bottom))

\* the branch chosen when overlap_top is left out of the minimum
BlockAxisWithoutTop(o, vx, vy) ==
  LET min_overlap == Min2(Min2(o.left, o.right), o.bottom)
  IN IF min_overlap = o.top /\ vy > 0 THEN "top"
     ELSE IF min_overlap = o.bottom /\ vy < 0 THEN "bottom"
     ELSE IF min_overlap \in {o.left, o.right} /\ vx # 0 THEN "side"
     ELSE "none"

\* which branch of the player-vs-tile resolution runs for these overlaps
BlockAxis(o, vx, vy) ==
  LET min_overlap == MinOverlap(o)
  IN IF min_overlap = o.top /\ vy > 0 THEN "top"
     ELSE IF min_overlap = o.bottom /\ vy < 0 THEN "bottom"
     ELSE IF min_overlap \in {o.left, o.right} /\ vx # 0 THEN "side"
     ELSE "none"

\* the body of the block loop when the top branch also stops the player
\* horizontally
MarioBlockStopsBoth(g, rect, j) ==
  LET m == g.mario
      b == g.level.blocks[j]
      br == BlockRect(b)
      axis == BlockAxis(Overlaps(rect, br), m.vx, m.vy)
  IN CASE axis = "top" ->
            [g EXCEPT !.mario.y = Px(br.top - MARIO_HEIGHT),
                      !.mario.vy = 0,
                      !.mario.vx = 0,
                      !.mario.on_ground = TRUE]
       [] axis = "bottom" ->
            LET g1 == [g EXCEPT !.mario.y = Px(br.bottom), !.mario.vy = 0]
                g2 == [g1 EXCEPT !.level.blocks[j].hit = TRUE,
                                 !.level.blocks[j].hit_timer = HIT_TIME]
            IN IF b.hit THEN g1
               ELSE IF b.type = "question" THEN
                      [g2 EXCEPT !.mario.coins = m.coins + 1,
                                 !.mario.score = m.score + 200]
               ELSE IF b.type = "brick" /\ m.big THEN
                      [g2 EXCEPT !.mario.score = m.score + 50,
                                 !.level.blocks = RemoveAt(g2.level.blocks, j)]
               ELSE IF b.type = "brick" THEN
                      [g2 EXCEPT !.mario.score = m.score + 50]
               ELSE g2
       [] axis = "side" ->
            [g EXCEPT !.mario.x = IF m.x < Px(b.x)
                                  THEN Px(br.left - MARIO_WIDTH)
                                  ELSE Px(br.right),
                      !.mario.vx = 0]
       [] OTHER -> g

\* the body of the block loop when the reward does not look at block.hit
MarioBlockRewardsAgain(g, rect, j) ==
  LET m == g.mario
      b == g.level.blocks[j]
      br == BlockRect(b)
      axis == BlockAxis(Overlaps(rect, br), m.vx, m.vy)
  IN CASE axis = "top" ->
            [g EXCEPT !.mario.y = Px(br.top - MARIO_HEIGHT),
                      !.mario.vy = 0,
                      !.mario.on_ground = TRUE]
       [] axis = "bottom" ->
            LET g1 == [g EXCEPT !.mario.y = Px(br.bottom), !.mario.vy = 0]
                g2 == [g1 EXCEPT !.level.blocks[j].hit = TRUE,
                                 !.level.blocks[j].hit_timer = HIT_TIME]
            IN IF b.type = "question" THEN
                      [g2 EXCEPT !.mario.coins = m.coins + 1,
                                 !.mario.score = m.score + 200]
               ELSE IF b.type = "brick" /\ m.big THEN
                      [g2 EXCEPT !.mario.score = m.score + 50,
                                 !.level.blocks = RemoveAt(g2.level.blocks, j)]
               ELSE IF b.type = "brick" THEN
                      [g2 EXCEPT !.mario.score = m.score + 50]
               ELSE g2
       [] axis = "side" ->
            [g EXCEPT !.mario.x = IF m.x < Px(b.x)
                                  THEN Px(br.left - MARIO_WIDTH)
                                  ELSE Px(br.right),
                      !.mario.vx = 0]
       [] OTHER -> g

\* the body of the block loop for the j-th block, which mario_rect overlaps
MarioBlock(g, rect, j) ==
  LET m == g.mario
      b == g.level.blocks[j]
      br == BlockRect(b)
      axis == BlockAxis(Overlaps(rect, br), m.vx, m.vy)
  IN CASE axis = "top" ->
            [g EXCEPT !.mario.y = Px(br.top - MARIO_HEIGHT),
                      !.mario.vy = 0,
                      !.mario.on_ground = TRUE]
       [] axis = "bottom" ->
            LET g1 == [g EXCEPT !.mario.y = Px(br.bottom), !.mario.vy = 0]
                g2 == [g1 EXCEPT !.level.blocks[j].hit = TRUE,
                                 !.level.blocks[j].hit_timer = HIT_TIME]
            IN IF b.hit THEN g1
               ELSE IF b.type = "question" THEN
                      [g2 EXCEPT !.mario.coins = m.coins + 1,
                                 !.mario.score = m.score + 200]
               ELSE IF b.type = "brick" /\ m.big THEN
                      [g2 EXCEPT !.mario.score = m.score + 50,
                                 !.level.blocks = RemoveAt(g2.level.blocks, j)]
               ELSE IF b.type = "brick" THEN
                      [g2 EXCEPT !.mario.score = m.score + 50]
               ELSE g2
       [] axis = "side" ->
            [g EXCEPT !.mario.x = IF m.x < Px(b.x)
                                  THEN Px(br.left - MARIO_WIDTH)
                                  ELSE Px(br.right),
                      !.mario.vx = 0]
       [] OTHER -> g

\* for block in self.level.blocks, from list position i on: the blocks that
\* mario_rect does not overlap are passed over; a removal shifts the list
\* under the iterator, which then goes on at position j + 1
RECURSIVE MarioBlocks(_, _, _)
MarioBlocks(g, rect, i) ==
  LET blocks == g.level.blocks
      hits == {j \in i..Len(blocks) : colliderect(rect, BlockRect(blocks[j]))}
  IN IF hits = {} THEN g
     ELSE LET j == CHOOSE h \in hits : \A h2 \in hits : h <= h2
          IN MarioBlocks(MarioBlock(g, rect, j), rect, j + 1)

\* the block loop as the list of its passes: for each block that mario_rect
\* overlaps, in list order from position i, its position j and the game g
\* just before the body of the loop runs for it
RECURSIVE BlockPasses(_, _, _)
BlockPasses(g, rect, i) ==
  LET blocks == g.level.blocks
      hits == {j \in i..Len(blocks) : colliderect(rect, BlockRect(blocks[j]))}
  IN IF hits = {} THEN <<>>
     ELSE LET j == CHOOSE h \in hits : \A h2 \in hits : h <= h2
          IN <<[j |-> j, g |-> g]>>
               \o BlockPasses(MarioBlock(g, rect, j), rect, j + 1)

\* the player-vs-enemy branch taken for a live enemy that mario_rect overlaps
EnemyContact(m, e) ==
  IF m.vy > 0 /\ m.y < e.y THEN "stomp"
  ELSE IF m.invincible = 0 /\ ~m.star THEN (IF m.big THEN "shrink" ELSE "hurt")
  ELSE "none"

\* lives -= 1, then GAME_OVER or start_level
LoseLife(g, tape) ==
  LET g1 == [g EXCEPT !.mario.lives = g.mario.lives - 1]
  IN IF g1.mario.lives <= 0 THEN [g1 EXCEPT !.state = GAME_OVER]
     ELSE StartLevel(g1, tape)

\* for enemy in self.level.enemies[:]: the loop runs over the list `old` of
\* the level that was current when it began.  acc.g is the game, acc.same
\* tells whether self.level is still that level (a start_level in the loop
\* replaces it, and the enemies of `old` are then no longer in the game)
RECURSIVE MarioEnemies(_, _, _, _, _)
MarioEnemies(acc, rect, old, i, tape) ==
  IF i > Len(old) THEN acc.g
  ELSE
    LET g == acc.g
        e == old[i]
        contact == IF e.alive /\ colliderect(rect, EnemyRect(e))
                   THEN EnemyContact(g.mario, e) ELSE "none"
        next ==
          CASE contact = "stomp" ->
                 LET g1 == [g EXCEPT !.mario.vy = STOMP_BOUNCE,
                                     !.mario.score = g.mario.score + 100]
                 IN [g |-> IF acc.same
                           THEN [g1 EXCEPT !.level.enemies[i].alive = FALSE]
                           ELSE g1,
                     same |-> acc.same]
            [] contact = "shrink" ->
                 [g |-> [g EXCEPT !.mario.big = FALSE,
                                  !.mario.invincible = HURT_TIME],
                  same |-> acc.same]
            [] contact = "hurt" ->
                 [g |-> LoseLife(g, tape),
                  same |-> acc.same /\ g.mario.lives - 1 <= 0]
            [] OTHER -> acc
    IN MarioEnemies(next, rect, old, i + 1, tape)

\* the coin pickup when the hundredth coin gives a life without the count
\* being put back to 0
CollectCoinWithoutReset(m) ==
  LET n == m.coins + 1
  IN [m EXCEPT !.score = m.score + 10,
               !.coins = n,
               !.lives = IF n >= COINS_PER_LIFE THEN m.lives + 1 ELSE m.lives]

\* the player's part of a coin pickup: score += 10, coins += 1 and, at 100
\* coins, coins = 0 and lives += 1
CollectCoin(m) ==
  LET n == m.coins + 1
  IN [m EXCEPT !.score = m.score + 10,
               !.coins = IF n >= COINS_PER_LIFE THEN 0 ELSE n,
               !.lives = IF n >= COINS_PER_LIFE THEN m.lives + 1 ELSE m.lives]

\* for coin in self.level.coins[:], from position i of the copy `old`; kept
\* is the list self.level.coins becomes (faded coins removed)
RECURSIVE MarioCoins(_, _, _, _, _)
MarioCoins(g, rect, old, i, kept) ==
  IF i > Len(old) THEN [g EXCEPT !.level.coins = kept]
  ELSE
    LET c == old[i]
    IN IF c.collected THEN
         MarioCoins(g, rect, old, i + 1,
                    IF c.collected_timer >= COIN_FADE THEN kept
                    ELSE Append(kept, c))
       ELSE IF colliderect(rect, CoinRect(c)) THEN
         LET g1 == [g EXCEPT !.mario = CollectCoin(g.mario)]
         IN MarioCoins(g1, rect, old, i + 1,
                       Append(kept, [c EXCEPT !.collected = TRUE,
                                              !.collected_timer = 0]))
       ELSE MarioCoins(g, rect, old, i + 1, Append(kept, c))

\* the body of the enemy-vs-tile loop for a block that enemy_rect overlaps
EnemyBlock(e, b) ==
  LET br == BlockRect(b)
  IN IF e.vy > 0 /\ e.y < Px(b.y) THEN
       [e EXCEPT !.y = Px(br.top - ENEMY_HEIGHT), !.vy = 0, !.on_ground = TRUE]
     ELSE IF e.vy < 0 THEN
       [e EXCEPT !.y = Px(br.bottom), !.vy = 0, !.vx = -e.vx,
                 !.direction = -e.direction]
     ELSE IF e.vx # 0 THEN
       [e EXCEPT !.x = IF e.x < Px(b.x) THEN Px(br.left - ENEMY_WIDTH)
                       ELSE Px(br.right),
                 !.vx = -e.vx, !.direction = -e.direction]
     ELSE e

\* for block in self.level.blocks, for one enemy, from list position i on
RECURSIVE EnemyBlocks(_, _, _, _)
EnemyBlocks(e, rect, blocks, i) ==
  LET hits == {j \in i..Len(blocks) : colliderect(rect, BlockRect(blocks[j]))}
  IN IF hits = {} THEN e
     ELSE LET j == CHOOSE h \in hits : \A h2 \in hits : h <= h2
          IN EnemyBlocks(EnemyBlock(e, blocks[j]), rect, blocks, j + 1)

\* the separate pass of every live enemy against the tiles
EnemiesBlocks(g) ==
  [g EXCEPT !.level.enemies =
     [i \in 1..Len(g.level.enemies) |->
        LET e == g.level.enemies[i]
        IN IF ~e.alive THEN e
           ELSE EnemyBlocks([e EXCEPT !.on_ground = FALSE], EnemyRect(e),
                            g.level.blocks, 1)]]

\* the goal check when the world index is not wrapped after world 8
GoalCheckWithoutWrap(g, tape) ==
  IF g.mario.x >= Px(g.level.goal_x) THEN
    IF g.current_level + 1 > LEVELS_PER_WORLD THEN
      [g EXCEPT !.current_level = 1,
                !.current_world = g.current_world + 1,
                !.state = WORLD_MAP]
    ELSE StartLevel([g EXCEPT !.current_level = g.current_level + 1], tape)
  ELSE g

\* the goal check when the level index is not put back to 1 after level 4
GoalCheckKeepsLevel(g, tape) ==
  IF g.mario.x >= Px(g.level.goal_x) THEN
    IF g.current_level + 1 > LEVELS_PER_WORLD THEN
      IF g.current_world + 1 > WORLDS
      THEN [g EXCEPT !.current_level = g.current_level + 1,
                     !.current_world = 1, !.state = MENU]
      ELSE [g EXCEPT !.current_level = g.current_level + 1,
                     !.current_world = g.current_world + 1,
                     !.state = WORLD_MAP]
    ELSE StartLevel([g EXCEPT !.current_level = g.current_level + 1], tape)
  ELSE g

\* if self.mario.x >= self.level.goal_x
GoalCheck(g, tape) ==
  IF g.mario.x >= Px(g.level.goal_x) THEN
    IF g.current_level + 1 > LEVELS_PER_WORLD THEN
      IF g.current_world + 1 > WORLDS
      THEN [g EXCEPT !.current_level = 1, !.current_world = 1, !.state = MENU]
      ELSE [g EXCEPT !.current_level = 1,
                     !.current_world = g.current_world + 1,
                     !.state = WORLD_MAP]
    ELSE StartLevel([g EXCEPT !.current_level = g.current_level + 1], tape)
  ELSE g

\* if self.mario.y > SCREEN_HEIGHT + 100
FallCheck(g, tape) ==
  IF g.mario.y > Px(SCREEN_HEIGHT + FALL_MARGIN) THEN LoseLife(g, tape) ELSE g

\* handle_collisions in its passes.  mario_rect is taken once, before the
\* loops, and every pass tests against it
CollisionStart(g) == [g EXCEPT !.mario.on_ground = FALSE]

\* after the player-vs-tile loop
AfterBlocks(g) ==
  MarioBlocks(CollisionStart(g), MarioRect(g.mario), 1)

\* after the player-vs-enemy loop
AfterEnemies(g, tape) ==
  LET g1 == AfterBlocks(g)
  IN MarioEnemies([g |-> g1, same |-> TRUE], MarioRect(g.mario),
                  g1.level.enemies, 1, tape)

\* after the player-vs-coin loop
AfterCoins(g, tape) ==
  LET g2 == AfterEnemies(g, tape)
  IN MarioCoins(g2, MarioRect(g.mario), g2.level.coins, 1, <<>>)

\* after the enemy-vs-tile pass and the goal check
AfterGoal(g, tape) == GoalCheck(EnemiesBlocks(AfterCoins(g, tape)), tape)

\* MarioForever.handle_collisions
HandleCollisions(g, tape) == FallCheck(AfterGoal(g, tape), tape)

\* --------------------------------------------------------------------- run
\* self.camera_x += (target_x - self.camera_x) * 0.08; max(0, ...)
UpdateCamera(g) ==
  LET target_x == g.mario.x - Px(SCREEN_WIDTH \div 2)
  IN [g EXCEPT !.camera_x =
        Max2(0, g.camera_x + Times(target_x - g.camera_x, CAMERA_EASE))]

\* the event loop for one event when K_SPACE on the world map starts nothing
HandleEventWithoutStart(g, ev, tape) ==
  CASE ev = "QUIT" -> [g EXCEPT !.running = FALSE]
    [] ev = "ESCAPE" -> [g EXCEPT !.state = MENU]
    [] ev = "SPACE" ->
         IF g.state = MENU THEN [g EXCEPT !.state = WORLD_MAP]
         ELSE IF g.state = GAME_OVER THEN
           [g EXCEPT !.state = MENU,
                     !.mario.lives = START_LIVES,
                     !.mario.score = 0,
                     !.mario.coins = 0,
                     !.current_world = 1,
                     !.current_level = 1]
         ELSE g
    [] OTHER -> g

\* the event loop of run, for one event
HandleEvent(g, ev, tape) ==
  CASE ev = "QUIT" -> [g EXCEPT !.running = FALSE]
    [] ev = "ESCAPE" -> [g EXCEPT !.state = MENU]
    [] ev = "SPACE" ->
         IF g.state = MENU THEN [g EXCEPT !.state = WORLD_MAP]
         ELSE IF g.state = WORLD_MAP THEN StartLevel(g, tape)
         ELSE IF g.state = GAME_OVER THEN
           [g EXCEPT !.state = MENU,
                     !.mario.lives = START_LIVES,
                     !.mario.score = 0,
                     !.mario.coins = 0,
                     !.current_world = 1,
                     !.current_level = 1]
         ELSE g
    [] OTHER -> g

RECURSIVE HandleEvents(_, _, _)
HandleEvents(g, evs, tape) ==
  IF evs = <<>> THEN g
  ELSE HandleEvents(HandleEvent(g, Head(evs), tape), Tail(evs), tape)

\* if self.frame % 60 == 0: the level countdown
LevelTimer(g, tape) ==
  IF g.frame % FPS = 0 THEN
    LET g1 == [g EXCEPT !.level.time = g.level.time - 1]
    IN IF g1.level.time <= 0 THEN LoseLife(g1, tape) ELSE g1
  ELSE g

\* the three updates of the body of `if self.state == GameState.PLAYING`
\* in run: the player, every enemy, every coin
Updated(g, k) ==
  LET g1 == [g EXCEPT !.mario = MarioUpdate(g.mario, k)]
      g2 == [g1 EXCEPT !.level.enemies =
               [i \in 1..Len(g1.level.enemies) |->
                  EnemyUpdate(g1.level.enemies[i], g1.level.blocks)]]
  IN [g2 EXCEPT !.level.coins =
        [i \in 1..Len(g2.level.coins) |-> CoinUpdate(g2.level.coins[i])]]

\* the body of `if self.state == GameState.PLAYING` in run, up to the call
\* of handle_collisions: the three updates and the countdown
Moved(g, k, tape) == LevelTimer(Updated(g, k), tape)

PlayStep(g, k, tape) == UpdateCamera(HandleCollisions(Moved(g, k, tape), tape))

\* Block.draw: the bounce timer counts down in the draw call
BlockDraw(b) ==
  IF b.hit_timer > 0 THEN [b EXCEPT !.hit_timer = b.hit_timer - 1] ELSE b

\* the drawing branch of run: only the blocks near the camera are drawn
Draw(g) ==
  IF g.state = PLAYING THEN
    [g EXCEPT !.level.blocks =
       [i \in 1..Len(g.level.blocks) |->
          LET b == g.level.blocks[i]
              dx == Px(b.x) - g.camera_x
          IN IF Px(-100) < dx /\ dx < Px(SCREEN_WIDTH + 100)
             THEN BlockDraw(b) ELSE b]]
  ELSE g

\* the top of an iteration: the frame count and the event loop
Polled(g, evs, tape) == HandleEvents([g EXCEPT !.frame = g.frame + 1], evs, tape)

\* an iteration that decides on the mode it began in whether to simulate
IterationOnOldMode(g, evs, k, tape) ==
  LET g2 == Polled(g, evs, tape)
  IN Draw(IF g.state = PLAYING THEN PlayStep(g2, k, tape) ELSE g2)

\* one iteration of the loop of run, on the game record
Iteration(g, evs, k, tape) ==
  LET g2 == Polled(g, evs, tape)
  IN Draw(IF g2.state = PLAYING THEN PlayStep(g2, k, tape) ELSE g2)

\* the game as one record
Game ==
  [state |-> state, current_world |-> current_world,
   current_level |-> current_level, mario |-> mario, level |-> level,
   camera_x |-> camera_x, frame |-> frame, running |-> running]

\* ------------------------------------------------------------------ bounds
MaxTicks == 2
MaxFarTicks == 1
MaxTape == 1
Tapes == 0..MaxTape

HeldKeys ==
  { NoKeys,
    [NoKeys EXCEPT !.right = TRUE],
    [NoKeys EXCEPT !.left = TRUE, !.shift = TRUE],
    [NoKeys EXCEPT !.space = TRUE] }

\* ------------------------------------------------------------- game states
\* MarioForever.__init__
Constructed ==
  [state |-> MENU, current_world |-> 1, current_level |-> 1,
   mario |-> MarioReset, level |-> NoLevel, camera_x |-> 0,
   frame |-> 0, running |-> TRUE]

\* a level in play: the level as constructed, with its countdown, its
\* enemies and coins as they are now, and hits the set of <<i, hit_timer>>
\* of the blocks that have been hit
Played(lv, time, enemies, coins, hits) ==
  [lv EXCEPT !.time = time, !.enemies = enemies, !.coins = coins,
             !.blocks = [i \in 1..Len(lv.blocks) |->
                IF \E h \in hits : h[1] = i
                THEN [lv.blocks[i] EXCEPT
                        !.hit = TRUE,
                        !.hit_timer = (CHOOSE h \in hits : h[1] = i)[2]]
                ELSE lv.blocks[i]]]

\* States of the game taken from runs of the program under the inputs given
\* with each one; positions and velocities are rounded to 1/Unit pixel.

\* level 1-1, 21 iterations after its start with no key held: the player has
\* fallen from the spawn point and has just been put on the ground
CpLanded ==
  [state |-> 1, current_world |-> 1, current_level |-> 1,
   mario |-> [x |-> 4000, y |-> 18720, vx |-> 0, vy |-> 0,
              on_ground |-> TRUE, facing_right |-> TRUE,
              running |-> FALSE, big |-> FALSE, star |-> FALSE,
              star_timer |-> 0, lives |-> 3, coins |-> 0,
              score |-> 0, invincible |-> 0,
              jump_frames |-> 0, sliding |-> FALSE],
   level |-> Played(Level(1, 1, 0), 400,
     << [x |-> 23360, y |-> 19040, vx |-> -40, vy |-> 0, type |-> "goomba", alive |-> TRUE, on_ground |-> TRUE, direction |-> -1],
        [x |-> 36160, y |-> 19040, vx |-> -40, vy |-> 0, type |-> "goomba", alive |-> TRUE, on_ground |-> TRUE, direction |-> -1] >>,
     << [x |-> 576, y |-> 380, collected |-> FALSE, collected_timer |-> 0],
        [x |-> 672, y |-> 380, collected |-> FALSE, collected_timer |-> 0] >>,
     {}),
   camera_x |-> 0, frame |-> 23, running |-> TRUE]

\* level 1-1 after 198 iterations with no key held: the first goomba has
\* walked up to the standing player
CpStomp ==
  [state |-> 1, current_world |-> 1, current_level |-> 1,
   mario |-> [x |-> 4000, y |-> 18720, vx |-> 0, vy |-> 0,
              on_ground |-> TRUE, facing_right |-> TRUE,
              running |-> FALSE, big |-> FALSE, star |-> FALSE,
              star_timer |-> 0, lives |-> 3, coins |-> 0,
              score |-> 0, invincible |-> 0,
              jump_frames |-> 0, sliding |-> FALSE],
   level |-> Played(Level(1, 1, 0), 397,
     << [x |-> 5080, y |-> 19070, vx |-> -40, vy |-> 30, type |-> "goomba", alive |-> TRUE, on_ground |-> FALSE, direction |-> -1],
        [x |-> 17880, y |-> 19070, vx |-> -40, vy |-> 30, type |-> "goomba", alive |-> TRUE, on_ground |-> FALSE, direction |-> -1] >>,
     << [x |-> 576, y |-> 380, collected |-> FALSE, collected_timer |-> 0],
        [x |-> 672, y |-> 380, collected |-> FALSE, collected_timer |-> 0] >>,
     {}),
   camera_x |-> 0, frame |-> 200, running |-> TRUE]

\* level 1-1 after 318 iterations with no key held: the first goomba is
\* dead, the second one has walked up to the standing player
CpHurt ==
  [state |-> 1, current_world |-> 1, current_level |-> 1,
   mario |-> [x |-> 4000, y |-> 18750, vx |-> 0, vy |-> 30,
              on_ground |-> FALSE, facing_right |-> TRUE,
              running |-> FALSE, big |-> FALSE, star |-> FALSE,
              star_timer |-> 0, lives |-> 3, coins |-> 0,
              score |-> 100, invincible |-> 0,
              jump_frames |-> 0, sliding |-> FALSE],
   level |-> Played(Level(1, 1, 0), 395,
     << [x |-> 4200, y |-> 19070, vx |-> 40, vy |-> 30, type |-> "goomba", alive |-> FALSE, on_ground |-> TRUE, direction |-> 1],
        [x |-> 5080, y |-> 19070, vx |-> -40, vy |-> 30, type |-> "goomba", alive |-> TRUE, on_ground |-> FALSE, direction |-> -1] >>,
     << [x |-> 576, y |-> 380, collected |-> FALSE, collected_timer |-> 0],
        [x |-> 672, y |-> 380, collected |-> FALSE, collected_timer |-> 0] >>,
     {}),
   camera_x |-> 0, frame |-> 320, running |-> TRUE]

\* level 1-1 after 38 iterations with LEFT and SHIFT held: the player has
\* left the ground at the left end of the level and falls
CpFalling ==
  [state |-> 1, current_world |-> 1, current_level |-> 1,
   mario |-> [x |-> -7176, y |-> 27120, vx |-> -313, vy |-> 480,
              on_ground |-> FALSE, facing_right |-> FALSE,
              running |-> TRUE, big |-> FALSE, star |-> FALSE,
              star_timer |-> 0, lives |-> 3, coins |-> 0,
              score |-> 0, invincible |-> 0,
              jump_frames |-> 0, sliding |-> FALSE],
   level |-> Played(Level(1, 1, 0), 400,
     << [x |-> 21880, y |-> 19070, vx |-> -40, vy |-> 30, type |-> "goomba", alive |-> TRUE, on_ground |-> FALSE, direction |-> -1],
        [x |-> 34680, y |-> 19070, vx |-> -40, vy |-> 30, type |-> "goomba", alive |-> TRUE, on_ground |-> FALSE, direction |-> -1] >>,
     << [x |-> 576, y |-> 380, collected |-> FALSE, collected_timer |-> 0],
        [x |-> 672, y |-> 380, collected |-> FALSE, collected_timer |-> 0] >>,
     {}),
   camera_x |-> 0, frame |-> 40, running |-> TRUE]

\* level 1-1 after 40 iterations with no key held and 54 with RIGHT held:
\* the player walks towards the first goomba
CpWalking ==
  [state |-> 1, current_world |-> 1, current_level |-> 1,
   mario |-> [x |-> 14316, y |-> 18720, vx |-> 207, vy |-> 0,
              on_ground |-> FALSE, facing_right |-> TRUE,
              running |-> FALSE, big |-> FALSE, star |-> FALSE,
              star_timer |-> 0, lives |-> 3, coins |-> 0,
              score |-> 0, invincible |-> 0,
              jump_frames |-> 0, sliding |-> FALSE],
   level |-> Played(Level(1, 1, 0), 399,
     << [x |-> 15640, y |-> 19070, vx |-> -40, vy |-> 30, type |-> "goomba", alive |-> TRUE, on_ground |-> FALSE, direction |-> -1],
        [x |-> 28440, y |-> 19070, vx |-> -40, vy |-> 30, type |-> "goomba", alive |-> TRUE, on_ground |-> FALSE, direction |-> -1] >>,
     << [x |-> 576, y |-> 380, collected |-> FALSE, collected_timer |-> 0],
        [x |-> 672, y |-> 380, collected |-> FALSE, collected_timer |-> 0] >>,
     {}),
   camera_x |-> 0, frame |-> 96, running |-> TRUE]

\* level 1-1: the player has walked under the question block at x = 512
\* and jumped
CpBump1 ==
  [state |-> 1, current_world |-> 1, current_level |-> 1,
   mario |-> [x |-> 20480, y |-> 18120, vx |-> 0, vy |-> -600,
              on_ground |-> FALSE, facing_right |-> TRUE,
              running |-> FALSE, big |-> FALSE, star |-> FALSE,
              star_timer |-> 0, lives |-> 3, coins |-> 0,
              score |-> 100, invincible |-> 0,
              jump_frames |-> 1, sliding |-> FALSE],
   level |-> Played(Level(1, 1, 0), 398,
     << [x |-> 17920, y |-> 19130, vx |-> -40, vy |-> 60, type |-> "goomba", alive |-> FALSE, on_ground |-> FALSE, direction |-> -1],
        [x |-> 25840, y |-> 19040, vx |-> -40, vy |-> 0, type |-> "goomba", alive |-> TRUE, on_ground |-> TRUE, direction |-> -1] >>,
     << [x |-> 576, y |-> 380, collected |-> FALSE, collected_timer |-> 0],
        [x |-> 672, y |-> 380, collected |-> FALSE, collected_timer |-> 0] >>,
     {}),
   camera_x |-> 3894, frame |-> 468, running |-> TRUE]

\* level 1-1: the player has hit the question block at x = 512 once and
\* jumped again
CpBump2 ==
  [state |-> 1, current_world |-> 1, current_level |-> 1,
   mario |-> [x |-> 20480, y |-> 18120, vx |-> 0, vy |-> -600,
              on_ground |-> FALSE, facing_right |-> TRUE,
              running |-> FALSE, big |-> FALSE, star |-> FALSE,
              star_timer |-> 0, lives |-> 3, coins |-> 1,
              score |-> 300, invincible |-> 0,
              jump_frames |-> 1, sliding |-> FALSE],
   level |-> Played(Level(1, 1, 0), 397,
     << [x |-> 17920, y |-> 19130, vx |-> -40, vy |-> 60, type |-> "goomba", alive |-> FALSE, on_ground |-> FALSE, direction |-> -1],
        [x |-> 24520, y |-> 19070, vx |-> -40, vy |-> 30, type |-> "goomba", alive |-> TRUE, on_ground |-> FALSE, direction |-> -1] >>,
     << [x |-> 576, y |-> 380, collected |-> FALSE, collected_timer |-> 0],
        [x |-> 672, y |-> 380, collected |-> FALSE, collected_timer |-> 0] >>,
     {<<401, 0>>}),
   camera_x |-> 4282, frame |-> 481, running |-> TRUE]

\* level 1-1: the player has walked under the brick at x = 640 and jumped
CpBump3 ==
  [state |-> 1, current_world |-> 1, current_level |-> 1,
   mario |-> [x |-> 25600, y |-> 18120, vx |-> 0, vy |-> -600,
              on_ground |-> FALSE, facing_right |-> TRUE,
              running |-> FALSE, big |-> FALSE, star |-> FALSE,
              star_timer |-> 0, lives |-> 3, coins |-> 1,
              score |-> 400, invincible |-> 0,
              jump_frames |-> 1, sliding |-> FALSE],
   level |-> Played(Level(1, 1, 0), 396,
     << [x |-> 17920, y |-> 19130, vx |-> -40, vy |-> 60, type |-> "goomba", alive |-> FALSE, on_ground |-> FALSE, direction |-> -1],
        [x |-> 22120, y |-> 19070, vx |-> 40, vy |-> 30, type |-> "goomba", alive |-> FALSE, on_ground |-> TRUE, direction |-> 1] >>,
     << [x |-> 576, y |-> 380, collected |-> FALSE, collected_timer |-> 0],
        [x |-> 672, y |-> 380, collected |-> FALSE, collected_timer |-> 0] >>,
     {<<401, 0>>}),
   camera_x |-> 8970, frame |-> 543, running |-> TRUE]

\* level 1-1: the player has jumped over both goombas, which then walk to and
\* fro at the left end of the level, has walked back and jumped, and comes
\* down on the two of them
CpTwoGoombas ==
  [state |-> 1, current_world |-> 1, current_level |-> 1,
   mario |-> [x |-> 1155, y |-> 17460, vx |-> -149, vy |-> 480,
              on_ground |-> FALSE, facing_right |-> FALSE,
              running |-> FALSE, big |-> FALSE, star |-> FALSE,
              star_timer |-> 0, lives |-> 3, coins |-> 0,
              score |-> 0, invincible |-> 0,
              jump_frames |-> 0, sliding |-> FALSE],
   level |-> Played(Level(1, 1, 0), 392,
     << [x |-> 280, y |-> 19070, vx |-> 40, vy |-> 30, type |-> "goomba", alive |-> TRUE, on_ground |-> FALSE, direction |-> 1],
        [x |-> 200, y |-> 19070, vx |-> -40, vy |-> 30, type |-> "goomba", alive |-> TRUE, on_ground |-> FALSE, direction |-> -1] >>,
     << [x |-> 576, y |-> 380, collected |-> FALSE, collected_timer |-> 0],
        [x |-> 672, y |-> 380, collected |-> FALSE, collected_timer |-> 0] >>,
     {}),
   camera_x |-> 0, frame |-> 488, running |-> TRUE]

\* level 1-1 at the end of a run of the whole game on tape 0: the player is
\* one tick short of goal_x
CpGoal11 ==
  [state |-> 1, current_world |-> 1, current_level |-> 1,
   mario |-> [x |-> 243181, y |-> 18750, vx |-> 257, vy |-> 30,
              on_ground |-> FALSE, facing_right |-> TRUE,
              running |-> TRUE, big |-> FALSE, star |-> FALSE,
              star_timer |-> 0, lives |-> 3, coins |-> 2,
              score |-> 310, invincible |-> 0,
              jump_frames |-> 0, sliding |-> FALSE],
   level |-> Played(Level(1, 1, 0), 385,
     << [x |-> 19560, y |-> 19070, vx |-> 40, vy |-> 30, type |-> "goomba", alive |-> FALSE, on_ground |-> TRUE, direction |-> 1],
        [x |-> 240, y |-> 19040, vx |-> 40, vy |-> 0, type |-> "goomba", alive |-> TRUE, on_ground |-> TRUE, direction |-> 1] >>,
     << [x |-> 576, y |-> 380, collected |-> FALSE, collected_timer |-> 0] >>,
     {<<401, 0>>}),
   camera_x |-> 224373, frame |-> 931, running |-> TRUE]
\* level 1-4 (tape 0) in the same run: the player is one tick short of goal_x
CpGoal14 ==
  [state |-> 1, current_world |-> 1, current_level |-> 4,
   mario |-> [x |-> 339181, y |-> 18750, vx |-> 257, vy |-> 30,
              on_ground |-> FALSE, facing_right |-> TRUE,
              running |-> TRUE, big |-> FALSE, star |-> FALSE,
              star_timer |-> 0, lives |-> 3, coins |-> 0,
              score |-> 50, invincible |-> 0,
              jump_frames |-> 0, sliding |-> FALSE],
   level |-> Played(Level(1, 4, 0), 377,
     << [x |-> 160, y |-> 19040, vx |-> 40, vy |-> 0, type |-> "goomba", alive |-> TRUE, on_ground |-> TRUE, direction |-> 1],
        [x |-> 160, y |-> 19040, vx |-> 40, vy |-> 0, type |-> "goomba", alive |-> TRUE, on_ground |-> TRUE, direction |-> 1],
        [x |-> 160, y |-> 19040, vx |-> 40, vy |-> 0, type |-> "goomba", alive |-> TRUE, on_ground |-> TRUE, direction |-> 1],
        [x |-> 160, y |-> 19040, vx |-> 40, vy |-> 0, type |-> "goomba", alive |-> TRUE, on_ground |-> TRUE, direction |-> 1],
        [x |-> 160, y |-> 19040, vx |-> 40, vy |-> 0, type |-> "goomba", alive |-> TRUE, on_ground |-> TRUE, direction |-> 1] >>,
     << [x |-> 160, y |-> 192, collected |-> FALSE, collected_timer |-> 0],
        [x |-> 160, y |-> 192, collected |-> FALSE, collected_timer |-> 0],
        [x |-> 160, y |-> 192, collected |-> FALSE, collected_timer |-> 0],
        [x |-> 160, y |-> 192, collected |-> FALSE, collected_timer |-> 0],
        [x |-> 160, y |-> 192, collected |-> FALSE, collected_timer |-> 0],
        [x |-> 160, y |-> 192, collected |-> FALSE, collected_timer |-> 0],
        [x |-> 160, y |-> 192, collected |-> FALSE, collected_timer |-> 0],
        [x |-> 160, y |-> 192, collected |-> FALSE, collected_timer |-> 0],
        [x |-> 160, y |-> 192, collected |-> FALSE, collected_timer |-> 0],
        [x |-> 160, y |-> 192, collected |-> FALSE, collected_timer |-> 0],
        [x |-> 160, y |-> 192, collected |-> FALSE, collected_timer |-> 0],
        [x |-> 160, y |-> 192, collected |-> FALSE, collected_timer |-> 0],
        [x |-> 160, y |-> 192, collected |-> FALSE, collected_timer |-> 0],
        [x |-> 160, y |-> 192, collected |-> FALSE, collected_timer |-> 0],
        [x |-> 160, y |-> 192, collected |-> FALSE, collected_timer |-> 0] >>,
     {<<577, 0>>}),
   camera_x |-> 320373, frame |-> 4153, running |-> TRUE]

\* level 8-4 (tape 0) in the same run: the player is one tick short of goal_x
CpGoal84 ==
  [state |-> 1, current_world |-> 8, current_level |-> 4,
   mario |-> [x |-> 786977, y |-> 18720, vx |-> 304, vy |-> 0,
              on_ground |-> FALSE, facing_right |-> TRUE,
              running |-> TRUE, big |-> FALSE, star |-> FALSE,
              star_timer |-> 0, lives |-> 3, coins |-> 0,
              score |-> 0, invincible |-> 0,
              jump_frames |-> 0, sliding |-> FALSE],
   level |-> Played(Level(8, 4, 0), 349,
     << [x |-> 40, y |-> 19070, vx |-> 40, vy |-> 30, type |-> "goomba", alive |-> TRUE, on_ground |-> FALSE, direction |-> 1],
        [x |-> 40, y |-> 19070, vx |-> 40, vy |-> 30, type |-> "goomba", alive |-> TRUE, on_ground |-> FALSE, direction |-> 1],
        [x |-> 40, y |-> 19070, vx |-> 40, vy |-> 30, type |-> "goomba", alive |-> TRUE, on_ground |-> FALSE, direction |-> 1],
        [x |-> 40, y |-> 19070, vx |-> 40, vy |-> 30, type |-> "goomba", alive |-> TRUE, on_ground |-> FALSE, direction |-> 1],
        [x |-> 40, y |-> 19070, vx |-> 40, vy |-> 30, type |-> "goomba", alive |-> TRUE, on_ground |-> FALSE, direction |-> 1],
        [x |-> 40, y |-> 19070, vx |-> 40, vy |-> 30, type |-> "goomba", alive |-> TRUE, on_ground |-> FALSE, direction |-> 1],
        [x |-> 40, y |-> 19070, vx |-> 40, vy |-> 30, type |-> "goomba", alive |-> TRUE, on_ground |-> FALSE, direction |-> 1],
        [x |-> 40, y |-> 19070, vx |-> 40, vy |-> 30, type |-> "goomba", alive |-> TRUE, on_ground |-> FALSE, direction |-> 1],
        [x |-> 40, y |-> 19070, vx |-> 40, vy |-> 30, type |-> "goomba", alive |-> TRUE, on_ground |-> FALSE, direction |-> 1],
        [x |-> 40, y |-> 19070, vx |-> 40, vy |-> 30, type |-> "goomba", alive |-> TRUE, on_ground |-> FALSE, direction |-> 1],
        [x |-> 40, y |-> 19070, vx |-> 40, vy |-> 30, type |-> "goomba", alive |-> TRUE, on_ground |-> FALSE, direction |-> 1],
        [x |-> 40, y |-> 19070, vx |-> 40, vy |-> 30, type |-> "goomba", alive |-> TRUE, on_ground |-> FALSE, direction |-> 1],
        [x |-> 40, y |-> 19070, vx |-> 40, vy |-> 30, type |-> "goomba", alive |-> TRUE, on_ground |-> FALSE, direction |-> 1],
        [x |-> 40, y |-> 19070, vx |-> 40, vy |-> 30, type |-> "goomba", alive |-> TRUE, on_ground |-> FALSE, direction |-> 1],
        [x |-> 40, y |-> 19070, vx |-> 40, vy |-> 30, type |-> "goomba", alive |-> TRUE, on_ground |-> FALSE, direction |-> 1],
        [x |-> 40, y |-> 19070, vx |-> 40, vy |-> 30, type |-> "goomba", alive |-> TRUE, on_ground |-> FALSE, direction |-> 1],
        [x |-> 40, y |-> 19070, vx |-> 40, vy |-> 30, type |-> "goomba", alive |-> TRUE, on_ground |-> FALSE, direction |-> 1],
        [x |-> 40, y |-> 19070, vx |-> 40, vy |-> 30, type |-> "goomba", alive |-> TRUE, on_ground |-> FALSE, direction |-> 1],
        [x |-> 40, y |-> 19070, vx |-> 40, vy |-> 30, type |-> "goomba", alive |-> TRUE, on_ground |-> FALSE, direction |-> 1] >>,
     << [x |-> 160, y |-> 192, collected |-> FALSE, collected_timer |-> 0],
        [x |-> 160, y |-> 192, collected |-> FALSE, collected_timer |-> 0],
        [x |-> 160, y |-> 192, collected |-> FALSE, collected_timer |-> 0],
        [x |-> 160, y |-> 192, collected |-> FALSE, collected_timer |-> 0],
        [x |-> 160, y |-> 192, collected |-> FALSE, collected_timer |-> 0],
        [x |-> 160, y |-> 192, collected |-> FALSE, collected_timer |-> 0],
        [x |-> 160, y |-> 192, collected |-> FALSE, collected_timer |-> 0],
        [x |-> 160, y |-> 192, collected |-> FALSE, collected_timer |-> 0],
        [x |-> 160, y |-> 192, collected |-> FALSE, collected_timer |-> 0],
        [x |-> 160, y |-> 192, collected |-> FALSE, collected_timer |-> 0],
        [x |-> 160, y |-> 192, collected |-> FALSE, collected_timer |-> 0],
        [x |-> 160, y |-> 192, collected |-> FALSE, collected_timer |-> 0],
        [x |-> 160, y |-> 192, collected |-> FALSE, collected_timer |-> 0],
        [x |-> 160, y |-> 192, collected |-> FALSE, collected_timer |-> 0],
        [x |-> 160, y |-> 192, collected |-> FALSE, collected_timer |-> 0],
        [x |-> 160, y |-> 192, collected |-> FALSE, collected_timer |-> 0],
        [x |-> 160, y |-> 192, collected |-> FALSE, collected_timer |-> 0],
        [x |-> 160, y |-> 192, collected |-> FALSE, collected_timer |-> 0],
        [x |-> 160, y |-> 192, collected |-> FALSE, collected_timer |-> 0],
        [x |-> 160, y |-> 192, collected |-> FALSE, collected_timer |-> 0],
        [x |-> 160, y |-> 192, collected |-> FALSE, collected_timer |-> 0],
        [x |-> 160, y |-> 192, collected |-> FALSE, collected_timer |-> 0],
        [x |-> 160, y |-> 192, collected |-> FALSE, collected_timer |-> 0],
        [x |-> 160, y |-> 192, collected |-> FALSE, collected_timer |-> 0],
        [x |-> 160, y |-> 192, collected |-> FALSE, collected_timer |-> 0],
        [x |-> 160, y |-> 192, collected |-> FALSE, collected_timer |-> 0],
        [x |-> 160, y |-> 192, collected |-> FALSE, collected_timer |-> 0],
        [x |-> 160, y |-> 192, collected |-> FALSE, collected_timer |-> 0],
        [x |-> 160, y |-> 192, collected |-> FALSE, collected_timer |-> 0],
        [x |-> 160, y |-> 192, collected |-> FALSE, collected_timer |-> 0],
        [x |-> 160, y |-> 192, collected |-> FALSE, collected_timer |-> 0],
        [x |-> 160, y |-> 192, collected |-> FALSE, collected_timer |-> 0],
        [x |-> 160, y |-> 192, collected |-> FALSE, collected_timer |-> 0],
        [x |-> 160, y |-> 192, collected |-> FALSE, collected_timer |-> 0],
        [x |-> 160, y |-> 192, collected |-> FALSE, collected_timer |-> 0],
        [x |-> 160, y |-> 192, collected |-> FALSE, collected_timer |-> 0],
        [x |-> 160, y |-> 192, collected |-> FALSE, collected_timer |-> 0],
        [x |-> 160, y |-> 192, collected |-> FALSE, collected_timer |-> 0],
        [x |-> 160, y |-> 192, collected |-> FALSE, collected_timer |-> 0],
        [x |-> 160, y |-> 192, collected |-> FALSE, collected_timer |-> 0],
        [x |-> 160, y |-> 192, collected |-> FALSE, collected_timer |-> 0],
        [x |-> 160, y |-> 192, collected |-> FALSE, collected_timer |-> 0],
        [x |-> 160, y |-> 192, collected |-> FALSE, collected_timer |-> 0],
        [x |-> 160, y |-> 192, collected |-> FALSE, collected_timer |-> 0],
        [x |-> 160, y |-> 192, collected |-> FALSE, collected_timer |-> 0],
        [x |-> 160, y |-> 192, collected |-> FALSE, collected_timer |-> 0],
        [x |-> 160, y |-> 192, collected |-> FALSE, collected_timer |-> 0],
        [x |-> 160, y |-> 192, collected |-> FALSE, collected_timer |-> 0],
        [x |-> 160, y |-> 192, collected |-> FALSE, collected_timer |-> 0],
        [x |-> 160, y |-> 192, collected |-> FALSE, collected_timer |-> 0] >>,
     {}),
   camera_x |-> 767877, frame |-> 63341, running |-> TRUE]

\* level 8-1 on tape 1, entered from the world map the run above reaches:
\* the player has 99 coins, from question blocks, and is one tick short of a
\* coin
CpCoin99 ==
  [state |-> 1, current_world |-> 8, current_level |-> 1,
   mario |-> [x |-> 244975, y |-> 15180, vx |-> -212, vy |-> -285,
              on_ground |-> FALSE, facing_right |-> FALSE,
              running |-> FALSE, big |-> FALSE, star |-> FALSE,
              star_timer |-> 0, lives |-> 3, coins |-> 99,
              score |-> 19800, invincible |-> 0,
              jump_frames |-> 8, sliding |-> FALSE],
   level |-> Played(Level(8, 1, 1), 251,
     << [x |-> 189440, y |-> 19040, vx |-> -40, vy |-> 0, type |-> "koopa", alive |-> TRUE, on_ground |-> TRUE, direction |-> -1],
        [x |-> 189720, y |-> 19040, vx |-> 40, vy |-> 0, type |-> "goomba", alive |-> TRUE, on_ground |-> TRUE, direction |-> 1],
        [x |-> 189480, y |-> 19040, vx |-> 40, vy |-> 0, type |-> "goomba", alive |-> TRUE, on_ground |-> TRUE, direction |-> 1],
        [x |-> 189600, y |-> 19040, vx |-> -40, vy |-> 0, type |-> "goomba", alive |-> TRUE, on_ground |-> TRUE, direction |-> -1],
        [x |-> 189720, y |-> 19040, vx |-> 40, vy |-> 0, type |-> "goomba", alive |-> TRUE, on_ground |-> TRUE, direction |-> 1],
        [x |-> 189480, y |-> 19040, vx |-> 40, vy |-> 0, type |-> "koopa", alive |-> TRUE, on_ground |-> TRUE, direction |-> 1],
        [x |-> 189600, y |-> 19040, vx |-> -40, vy |-> 0, type |-> "goomba", alive |-> TRUE, on_ground |-> TRUE, direction |-> -1],
        [x |-> 189720, y |-> 19040, vx |-> 40, vy |-> 0, type |-> "goomba", alive |-> TRUE, on_ground |-> TRUE, direction |-> 1],
        [x |-> 189480, y |-> 19040, vx |-> 40, vy |-> 0, type |-> "goomba", alive |-> TRUE, on_ground |-> TRUE, direction |-> 1],
        [x |-> 189600, y |-> 19040, vx |-> -40, vy |-> 0, type |-> "goomba", alive |-> TRUE, on_ground |-> TRUE, direction |-> -1],
        [x |-> 216560, y |-> 19040, vx |-> 40, vy |-> 0, type |-> "koopa", alive |-> TRUE, on_ground |-> TRUE, direction |-> 1],
        [x |-> 216640, y |-> 19040, vx |-> 40, vy |-> 0, type |-> "goomba", alive |-> TRUE, on_ground |-> TRUE, direction |-> 1],
        [x |-> 216480, y |-> 19040, vx |-> -40, vy |-> 0, type |-> "goomba", alive |-> TRUE, on_ground |-> TRUE, direction |-> -1],
        [x |-> 216640, y |-> 19040, vx |-> 40, vy |-> 0, type |-> "goomba", alive |-> TRUE, on_ground |-> TRUE, direction |-> 1],
        [x |-> 216400, y |-> 19040, vx |-> 40, vy |-> 0, type |-> "goomba", alive |-> TRUE, on_ground |-> TRUE, direction |-> 1],
        [x |-> 216480, y |-> 19040, vx |-> -40, vy |-> 0, type |-> "koopa", alive |-> TRUE, on_ground |-> TRUE, direction |-> -1],
        [x |-> 216640, y |-> 19040, vx |-> 40, vy |-> 0, type |-> "goomba", alive |-> TRUE, on_ground |-> TRUE, direction |-> 1],
        [x |-> 216400, y |-> 19040, vx |-> 40, vy |-> 0, type |-> "goomba", alive |-> TRUE, on_ground |-> TRUE, direction |-> 1],
        [x |-> 216480, y |-> 19040, vx |-> -40, vy |-> 0, type |-> "goomba", alive |-> TRUE, on_ground |-> TRUE, direction |-> -1] >>,
     << [x |-> 5792, y |-> 256, collected |-> FALSE, collected_timer |-> 0],
        [x |-> 5856, y |-> 320, collected |-> FALSE, collected_timer |-> 0],
        [x |-> 5920, y |-> 384, collected |-> FALSE, collected_timer |-> 0],
        [x |-> 5984, y |-> 224, collected |-> FALSE, collected_timer |-> 0],
        [x |-> 6048, y |-> 288, collected |-> FALSE, collected_timer |-> 0],
        [x |-> 6112, y |-> 352, collected |-> FALSE, collected_timer |-> 0],
        [x |-> 6176, y |-> 192, collected |-> FALSE, collected_timer |-> 0],
        [x |-> 6240, y |-> 256, collected |-> FALSE, collected_timer |-> 0],
        [x |-> 6304, y |-> 320, collected |-> FALSE, collected_timer |-> 0],
        [x |-> 6368, y |-> 384, collected |-> FALSE, collected_timer |-> 0],
        [x |-> 6432, y |-> 224, collected |-> FALSE, collected_timer |-> 0],
        [x |-> 6496, y |-> 288, collected |-> FALSE, collected_timer |-> 0],
        [x |-> 6560, y |-> 352, collected |-> FALSE, collected_timer |-> 0],
        [x |-> 6624, y |-> 192, collected |-> FALSE, collected_timer |-> 0],
        [x |-> 6688, y |-> 256, collected |-> FALSE, collected_timer |-> 0],
        [x |-> 6752, y |-> 320, collected |-> FALSE, collected_timer |-> 0],
        [x |-> 6816, y |-> 384, collected |-> FALSE, collected_timer |-> 0],
        [x |-> 6880, y |-> 224, collected |-> FALSE, collected_timer |-> 0],
        [x |-> 6944, y |-> 288, collected |-> FALSE, collected_timer |-> 0],
        [x |-> 7008, y |-> 352, collected |-> FALSE, collected_timer |-> 0],
        [x |-> 7072, y |-> 192, collected |-> FALSE, collected_timer |-> 0],
        [x |-> 7136, y |-> 256, collected |-> FALSE, collected_timer |-> 0],
        [x |-> 7200, y |-> 320, collected |-> FALSE, collected_timer |-> 0],
        [x |-> 7264, y |-> 384, collected |-> FALSE, collected_timer |-> 0],
        [x |-> 7328, y |-> 224, collected |-> FALSE, collected_timer |-> 0],
        [x |-> 7392, y |-> 288, collected |-> FALSE, collected_timer |-> 0],
        [x |-> 7456, y |-> 352, collected |-> FALSE, collected_timer |-> 0],
        [x |-> 7520, y |-> 192, collected |-> FALSE, collected_timer |-> 0],
        [x |-> 7584, y |-> 256, collected |-> FALSE, collected_timer |-> 0],
        [x |-> 7648, y |-> 320, collected |-> FALSE, collected_timer |-> 0],
        [x |-> 7712, y |-> 384, collected |-> FALSE, collected_timer |-> 0],
        [x |-> 7776, y |-> 224, collected |-> FALSE, collected_timer |-> 0],
        [x |-> 7840, y |-> 288, collected |-> FALSE, collected_timer |-> 0],
        [x |-> 7904, y |-> 352, collected |-> FALSE, collected_timer |-> 0],
        [x |-> 7968, y |-> 192, collected |-> FALSE, collected_timer |-> 0],
        [x |-> 8032, y |-> 256, collected |-> FALSE, collected_timer |-> 0],
        [x |-> 8096, y |-> 320, collected |-> FALSE, collected_timer |-> 0],
        [x |-> 8160, y |-> 384, collected |-> FALSE, collected_timer |-> 0],
        [x |-> 8224, y |-> 224, collected |-> FALSE, collected_timer |-> 0],
        [x |-> 8288, y |-> 288, collected |-> FALSE, collected_timer |-> 0],
        [x |-> 8352, y |-> 352, collected |-> FALSE, collected_timer |-> 0],
        [x |-> 8416, y |-> 192, collected |-> FALSE, collected_timer |-> 0],
        [x |-> 8480, y |-> 256, collected |-> FALSE, collected_timer |-> 0],
        [x |-> 8544, y |-> 320, collected |-> FALSE, collected_timer |-> 0],
        [x |-> 8608, y |-> 384, collected |-> FALSE, collected_timer |-> 0],
        [x |-> 8672, y |-> 224, collected |-> FALSE, collected_timer |-> 0],
        [x |-> 8736, y |-> 288, collected |-> FALSE, collected_timer |-> 0],
        [x |-> 8800, y |-> 352, collected |-> FALSE, collected_timer |-> 0],
        [x |-> 8864, y |-> 192, collected |-> FALSE, collected_timer |-> 0],
        [x |-> 8928, y |-> 256, collected |-> FALSE, collected_timer |-> 0] >>,
     {<<1037, 0>>, <<1038, 0>>, <<1039, 0>>, <<1040, 0>>, <<1041, 0>>, <<1050, 0>>, <<1051, 0>>, <<1058, 0>>, <<1059, 0>>, <<1060, 0>>, <<1061, 0>>, <<1063, 0>>, <<1064, 0>>, <<1065, 0>>, <<1066, 0>>, <<1068, 0>>, <<1069, 0>>, <<1070, 0>>, <<1071, 0>>, <<1075, 0>>, <<1076, 0>>, <<1077, 0>>, <<1078, 0>>, <<1079, 0>>, <<1080, 0>>, <<1081, 0>>, <<1083, 0>>, <<1084, 0>>, <<1085, 0>>, <<1086, 0>>, <<1088, 0>>, <<1089, 0>>, <<1090, 0>>, <<1091, 0>>, <<1093, 0>>, <<1094, 0>>, <<1095, 0>>, <<1096, 0>>, <<1100, 0>>, <<1101, 0>>, <<1102, 0>>, <<1103, 0>>, <<1104, 0>>, <<1105, 0>>, <<1106, 0>>, <<1108, 0>>, <<1109, 0>>, <<1110, 0>>, <<1111, 0>>, <<1113, 0>>, <<1114, 0>>, <<1115, 0>>, <<1116, 0>>, <<1118, 0>>, <<1119, 0>>, <<1120, 0>>, <<1121, 0>>, <<1125, 0>>, <<1126, 0>>, <<1127, 0>>, <<1128, 0>>, <<1129, 0>>, <<1130, 0>>, <<1131, 0>>, <<1133, 0>>, <<1134, 0>>, <<1135, 0>>, <<1136, 0>>, <<1138, 0>>, <<1139, 0>>, <<1140, 0>>, <<1141, 0>>, <<1143, 0>>, <<1144, 0>>, <<1145, 0>>, <<1146, 0>>, <<1150, 0>>, <<1151, 0>>, <<1152, 0>>, <<1153, 0>>, <<1154, 0>>, <<1155, 0>>, <<1156, 0>>, <<1158, 0>>, <<1159, 0>>, <<1160, 0>>, <<1161, 0>>, <<1163, 0>>, <<1164, 0>>, <<1165, 0>>, <<1166, 0>>, <<1168, 0>>, <<1169, 0>>, <<1170, 0>>, <<1171, 0>>, <<1177, 0>>, <<1178, 0>>, <<1179, 0>>, <<1180, 0>>}),
   camera_x |-> 230415, frame |-> 60781, running |-> TRUE]

\* the tick after CpGoal14: level 1-4 is finished, the world map shows 2-1
CpWorldMap21 ==
  [state |-> 2, current_world |-> 2, current_level |-> 1,
   mario |-> [x |-> 339454, y |-> 18720, vx |-> 274, vy |-> 0,
              on_ground |-> TRUE, facing_right |-> TRUE,
              running |-> TRUE, big |-> FALSE, star |-> FALSE,
              star_timer |-> 0, lives |-> 3, coins |-> 0,
              score |-> 50, invincible |-> 0,
              jump_frames |-> 0, sliding |-> FALSE],
   level |-> Played(Level(1, 4, 0), 377,
     << [x |-> 200, y |-> 19070, vx |-> 40, vy |-> 30, type |-> "goomba", alive |-> TRUE, on_ground |-> FALSE, direction |-> 1],
        [x |-> 200, y |-> 19070, vx |-> 40, vy |-> 30, type |-> "goomba", alive |-> TRUE, on_ground |-> FALSE, direction |-> 1],
        [x |-> 200, y |-> 19070, vx |-> 40, vy |-> 30, type |-> "goomba", alive |-> TRUE, on_ground |-> FALSE, direction |-> 1],
        [x |-> 200, y |-> 19070, vx |-> 40, vy |-> 30, type |-> "goomba", alive |-> TRUE, on_ground |-> FALSE, direction |-> 1],
        [x |-> 200, y |-> 19070, vx |-> 40, vy |-> 30, type |-> "goomba", alive |-> TRUE, on_ground |-> FALSE, direction |-> 1] >>,
     << [x |-> 160, y |-> 192, collected |-> FALSE, collected_timer |-> 0],
        [x |-> 160, y |-> 192, collected |-> FALSE, collected_timer |-> 0],
        [x |-> 160, y |-> 192, collected |-> FALSE, collected_timer |-> 0],
        [x |-> 160, y |-> 192, collected |-> FALSE, collected_timer |-> 0],
        [x |-> 160, y |-> 192, collected |-> FALSE, collected_timer |-> 0],
        [x |-> 160, y |-> 192, collected |-> FALSE, collected_timer |-> 0],
        [x |-> 160, y |-> 192, collected |-> FALSE, collected_timer |-> 0],
        [x |-> 160, y |-> 192, collected |-> FALSE, collected_timer |-> 0],
        [x |-> 160, y |-> 192, collected |-> FALSE, collected_timer |-> 0],
        [x |-> 160, y |-> 192, collected |-> FALSE, collected_timer |-> 0],
        [x |-> 160, y |-> 192, collected |-> FALSE, collected_timer |-> 0],
        [x |-> 160, y |-> 192, collected |-> FALSE, collected_timer |-> 0],
        [x |-> 160, y |-> 192, collected |-> FALSE, collected_timer |-> 0],
        [x |-> 160, y |-> 192, collected |-> FALSE, collected_timer |-> 0],
        [x |-> 160, y |-> 192, collected |-> FALSE, collected_timer |-> 0] >>,
     {<<577, 0>>}),
   camera_x |-> 320619, frame |-> 4154, running |-> TRUE]

\* level 1-2 in the run of CpGoal11: the player is one tick short of goal_x
CpGoal12 ==
  [state |-> 1, current_world |-> 1, current_level |-> 2,
   mario |-> [x |-> 179045, y |-> 18720, vx |-> 298, vy |-> 0,
              on_ground |-> TRUE, facing_right |-> TRUE,
              running |-> TRUE, big |-> FALSE, star |-> FALSE,
              star_timer |-> 0, lives |-> 3, coins |-> 1,
              score |-> 300, invincible |-> 0,
              jump_frames |-> 0, sliding |-> FALSE],
   level |-> Played(Level(1, 2, 0), 389,
     << [x |-> 15320, y |-> 19070, vx |-> -40, vy |-> 30, type |-> "koopa", alive |-> FALSE, on_ground |-> TRUE, direction |-> -1] >>,
     << [x |-> 384, y |-> 380, collected |-> FALSE, collected_timer |-> 0] >>,
     {<<301, 0>>}),
   camera_x |-> 160098, frame |-> 1609, running |-> TRUE]

\* level 2-4 (tape 0) in the run of CpGoal11: one tick short of goal_x
CpGoal24 ==
  [state |-> 1, current_world |-> 2, current_level |-> 4,
   mario |-> [x |-> 402977, y |-> 18720, vx |-> 304, vy |-> 0,
              on_ground |-> FALSE, facing_right |-> TRUE,
              running |-> TRUE, big |-> FALSE, star |-> FALSE,
              star_timer |-> 0, lives |-> 3, coins |-> 0,
              score |-> 0, invincible |-> 0,
              jump_frames |-> 0, sliding |-> FALSE],
   level |-> Played(Level(2, 4, 0), 373,
     << [x |-> 200, y |-> 19070, vx |-> -40, vy |-> 30, type |-> "goomba", alive |-> TRUE, on_ground |-> FALSE, direction |-> -1],
        [x |-> 200, y |-> 19070, vx |-> -40, vy |-> 30, type |-> "goomba", alive |-> TRUE, on_ground |-> FALSE, direction |-> -1],
        [x |-> 200, y |-> 19070, vx |-> -40, vy |-> 30, type |-> "goomba", alive |-> TRUE, on_ground |-> FALSE, direction |-> -1],
        [x |-> 200, y |-> 19070, vx |-> -40, vy |-> 30, type |-> "goomba", alive |-> TRUE, on_ground |-> FALSE, direction |-> -1],
        [x |-> 200, y |-> 19070, vx |-> -40, vy |-> 30, type |-> "goomba", alive |-> TRUE, on_ground |-> FALSE, direction |-> -1],
        [x |-> 200, y |-> 19070, vx |-> -40, vy |-> 30, type |-> "goomba", alive |-> TRUE, on_ground |-> FALSE, direction |-> -1],
        [x |-> 200, y |-> 19070, vx |-> -40, vy |-> 30, type |-> "goomba", alive |-> TRUE, on_ground |-> FALSE, direction |-> -1] >>,
     << [x |-> 160, y |-> 192, collected |-> FALSE, collected_timer |-> 0],
        [x |-> 160, y |-> 192, collected |-> FALSE, collected_timer |-> 0],
        [x |-> 160, y |-> 192, collected |-> FALSE, collected_timer |-> 0],
        [x |-> 160, y |-> 192, collected |-> FALSE, collected_timer |-> 0],
        [x |-> 160, y |-> 192, collected |-> FALSE, collected_timer |-> 0],
        [x |-> 160, y |-> 192, collected |-> FALSE, collected_timer |-> 0],
        [x |-> 160, y |-> 192, collected |-> FALSE, collected_timer |-> 0],
        [x |-> 160, y |-> 192, collected |-> FALSE, collected_timer |-> 0],
        [x |-> 160, y |-> 192, collected |-> FALSE, collected_timer |-> 0],
        [x |-> 160, y |-> 192, collected |-> FALSE, collected_timer |-> 0],
        [x |-> 160, y |-> 192, collected |-> FALSE, collected_timer |-> 0],
        [x |-> 160, y |-> 192, collected |-> FALSE, collected_timer |-> 0],
        [x |-> 160, y |-> 192, collected |-> FALSE, collected_timer |-> 0],
        [x |-> 160, y |-> 192, collected |-> FALSE, collected_timer |-> 0],
        [x |-> 160, y |-> 192, collected |-> FALSE, collected_timer |-> 0],
        [x |-> 160, y |-> 192, collected |-> FALSE, collected_timer |-> 0],
        [x |-> 160, y |-> 192, collected |-> FALSE, collected_timer |-> 0],
        [x |-> 160, y |-> 192, collected |-> FALSE, collected_timer |-> 0],
        [x |-> 160, y |-> 192, collected |-> FALSE, collected_timer |-> 0],
        [x |-> 160, y |-> 192, collected |-> FALSE, collected_timer |-> 0] >>,
     {}),
   camera_x |-> 383877, frame |-> 9608, running |-> TRUE]

\* level 1-1 in the run of CpGoal11: the first goomba has walked left to the
\* end of the ground and stands on it, the player is far to the right
CpLedge ==
  [state |-> 1, current_world |-> 1, current_level |-> 1,
   mario |-> [x |-> 98337, y |-> 18720, vx |-> 304, vy |-> 0,
              on_ground |-> FALSE, facing_right |-> TRUE,
              running |-> TRUE, big |-> FALSE, star |-> FALSE,
              star_timer |-> 0, lives |-> 3, coins |-> 2,
              score |-> 310, invincible |-> 0,
              jump_frames |-> 0, sliding |-> FALSE],
   level |-> Played(Level(1, 1, 0), 394,
     << [x |-> 19560, y |-> 19070, vx |-> 40, vy |-> 30, type |-> "goomba", alive |-> FALSE, on_ground |-> TRUE, direction |-> 1],
        [x |-> 0, y |-> 19040, vx |-> -40, vy |-> 0, type |-> "goomba", alive |-> TRUE, on_ground |-> TRUE, direction |-> -1] >>,
     << [x |-> 576, y |-> 380, collected |-> FALSE, collected_timer |-> 0] >>,
     {<<401, 0>>}),
   camera_x |-> 79237, frame |-> 367, running |-> TRUE]

\* level 1-1 in the run of CpGoal11: the player, in a jump, is one tick short
\* of the first coin
CpCoinAhead ==
  [state |-> 1, current_world |-> 1, current_level |-> 1,
   mario |-> [x |-> 27134, y |-> 16170, vx |-> 160, vy |-> -420,
              on_ground |-> FALSE, facing_right |-> TRUE,
              running |-> TRUE, big |-> FALSE, star |-> FALSE,
              star_timer |-> 0, lives |-> 3, coins |-> 1,
              score |-> 300, invincible |-> 0,
              jump_frames |-> 5, sliding |-> FALSE],
   level |-> Played(Level(1, 1, 0), 399,
     << [x |-> 19560, y |-> 19070, vx |-> 40, vy |-> 30, type |-> "goomba", alive |-> FALSE, on_ground |-> TRUE, direction |-> 1],
        [x |-> 29600, y |-> 19040, vx |-> -40, vy |-> 0, type |-> "goomba", alive |-> TRUE, on_ground |-> TRUE, direction |-> -1] >>,
     << [x |-> 576, y |-> 380, collected |-> FALSE, collected_timer |-> 0],
        [x |-> 672, y |-> 380, collected |-> FALSE, collected_timer |-> 0] >>,
     {<<401, 0>>}),
   camera_x |-> 8285, frame |-> 87, running |-> TRUE]

\* the same run 28 ticks after the coin was picked up: the coin fades
CpCoinFading ==
  [state |-> 1, current_world |-> 1, current_level |-> 1,
   mario |-> [x |-> 33847, y |-> 18750, vx |-> 157, vy |-> 30,
              on_ground |-> FALSE, facing_right |-> TRUE,
              running |-> TRUE, big |-> FALSE, star |-> FALSE,
              star_timer |-> 0, lives |-> 3, coins |-> 2,
              score |-> 310, invincible |-> 0,
              jump_frames |-> 0, sliding |-> FALSE],
   level |-> Played(Level(1, 1, 0), 399,
     << [x |-> 19560, y |-> 19070, vx |-> 40, vy |-> 30, type |-> "goomba", alive |-> FALSE, on_ground |-> TRUE, direction |-> 1],
        [x |-> 26840, y |-> 19070, vx |-> -40, vy |-> 30, type |-> "goomba", alive |-> TRUE, on_ground |-> FALSE, direction |-> -1] >>,
     << [x |-> 576, y |-> 380, collected |-> FALSE, collected_timer |-> 0],
        [x |-> 672, y |-> 380, collected |-> TRUE, collected_timer |-> 28] >>,
     {<<401, 0>>}),
   camera_x |-> 14938, frame |-> 116, running |-> TRUE]

\* level 1-1 after the player has stood still for the rest of the countdown:
\* it shows 1 and the next tick is a multiple of 60
CpTimeUp ==
  [state |-> 1, current_world |-> 1, current_level |-> 1,
   mario |-> [x |-> 101440, y |-> 18750, vx |-> 0, vy |-> 30,
              on_ground |-> FALSE, facing_right |-> TRUE,
              running |-> FALSE, big |-> FALSE, star |-> FALSE,
              star_timer |-> 0, lives |-> 3, coins |-> 2,
              score |-> 310, invincible |-> 0,
              jump_frames |-> 0, sliding |-> FALSE],
   level |-> Played(Level(1, 1, 0), 1,
     << [x |-> 19560, y |-> 19070, vx |-> 40, vy |-> 30, type |-> "goomba", alive |-> FALSE, on_ground |-> TRUE, direction |-> 1],
        [x |-> 80, y |-> 19040, vx |-> -40, vy |-> 0, type |-> "goomba", alive |-> TRUE, on_ground |-> TRUE, direction |-> -1] >>,
     << [x |-> 576, y |-> 380, collected |-> FALSE, collected_timer |-> 0] >>,
     {<<401, 0>>}),
   camera_x |-> 85440, frame |-> 23999, running |-> TRUE]

\* level 8-1 on tape 1, entered from the world map the run of CpGoal11
\* reaches: the player has 99 coins, from question blocks, and rises under
\* one more question block
CpBlock99 ==
  [state |-> 1, current_world |-> 8, current_level |-> 1,
   mario |-> [x |-> 168960, y |-> 17010, vx |-> 0, vy |-> -540,
              on_ground |-> FALSE, facing_right |-> TRUE,
              running |-> FALSE, big |-> FALSE, star |-> FALSE,
              star_timer |-> 0, lives |-> 3, coins |-> 99,
              score |-> 19800, invincible |-> 0,
              jump_frames |-> 0, sliding |-> FALSE],
   level |-> Played(Level(8, 1, 1), 262,
     << [x |-> 189760, y |-> 19040, vx |-> -40, vy |-> 0, type |-> "koopa", alive |-> TRUE, on_ground |-> TRUE, direction |-> -1],
        [x |-> 189440, y |-> 19040, vx |-> -40, vy |-> 0, type |-> "goomba", alive |-> TRUE, on_ground |-> TRUE, direction |-> -1],
        [x |-> 189680, y |-> 19040, vx |-> -40, vy |-> 0, type |-> "goomba", alive |-> TRUE, on_ground |-> TRUE, direction |-> -1],
        [x |-> 189640, y |-> 19040, vx |-> 40, vy |-> 0, type |-> "goomba", alive |-> TRUE, on_ground |-> TRUE, direction |-> 1],
        [x |-> 189440, y |-> 19040, vx |-> -40, vy |-> 0, type |-> "goomba", alive |-> TRUE, on_ground |-> TRUE, direction |-> -1],
        [x |-> 189680, y |-> 19040, vx |-> -40, vy |-> 0, type |-> "koopa", alive |-> TRUE, on_ground |-> TRUE, direction |-> -1],
        [x |-> 189640, y |-> 19040, vx |-> 40, vy |-> 0, type |-> "goomba", alive |-> TRUE, on_ground |-> TRUE, direction |-> 1],
        [x |-> 189440, y |-> 19040, vx |-> -40, vy |-> 0, type |-> "goomba", alive |-> TRUE, on_ground |-> TRUE, direction |-> -1],
        [x |-> 189680, y |-> 19040, vx |-> -40, vy |-> 0, type |-> "goomba", alive |-> TRUE, on_ground |-> TRUE, direction |-> -1],
        [x |-> 189640, y |-> 19040, vx |-> 40, vy |-> 0, type |-> "goomba", alive |-> TRUE, on_ground |-> TRUE, direction |-> 1],
        [x |-> 216400, y |-> 19040, vx |-> -40, vy |-> 0, type |-> "koopa", alive |-> TRUE, on_ground |-> TRUE, direction |-> -1],
        [x |-> 216320, y |-> 19040, vx |-> -40, vy |-> 0, type |-> "goomba", alive |-> TRUE, on_ground |-> TRUE, direction |-> -1],
        [x |-> 216560, y |-> 19040, vx |-> 40, vy |-> 0, type |-> "goomba", alive |-> TRUE, on_ground |-> TRUE, direction |-> 1],
        [x |-> 216320, y |-> 19040, vx |-> -40, vy |-> 0, type |-> "goomba", alive |-> TRUE, on_ground |-> TRUE, direction |-> -1],
        [x |-> 216560, y |-> 19040, vx |-> -40, vy |-> 0, type |-> "goomba", alive |-> TRUE, on_ground |-> TRUE, direction |-> -1],
        [x |-> 216560, y |-> 19040, vx |-> 40, vy |-> 0, type |-> "koopa", alive |-> TRUE, on_ground |-> TRUE, direction |-> 1],
        [x |-> 216320, y |-> 19040, vx |-> -40, vy |-> 0, type |-> "goomba", alive |-> TRUE, on_ground |-> TRUE, direction |-> -1],
        [x |-> 216560, y |-> 19040, vx |-> -40, vy |-> 0, type |-> "goomba", alive |-> TRUE, on_ground |-> TRUE, direction |-> -1],
        [x |-> 216560, y |-> 19040, vx |-> 40, vy |-> 0, type |-> "goomba", alive |-> TRUE, on_ground |-> TRUE, direction |-> 1] >>,
     << [x |-> 5792, y |-> 256, collected |-> FALSE, collected_timer |-> 0],
        [x |-> 5856, y |-> 320, collected |-> FALSE, collected_timer |-> 0],
        [x |-> 5920, y |-> 384, collected |-> FALSE, collected_timer |-> 0],
        [x |-> 5984, y |-> 224, collected |-> FALSE, collected_timer |-> 0],
        [x |-> 6048, y |-> 288, collected |-> FALSE, collected_timer |-> 0],
        [x |-> 6112, y |-> 352, collected |-> FALSE, collected_timer |-> 0],
        [x |-> 6176, y |-> 192, collected |-> FALSE, collected_timer |-> 0],
        [x |-> 6240, y |-> 256, collected |-> FALSE, collected_timer |-> 0],
        [x |-> 6304, y |-> 320, collected |-> FALSE, collected_timer |-> 0],
        [x |-> 6368, y |-> 384, collected |-> FALSE, collected_timer |-> 0],
        [x |-> 6432, y |-> 224, collected |-> FALSE, collected_timer |-> 0],
        [x |-> 6496, y |-> 288, collected |-> FALSE, collected_timer |-> 0],
        [x |-> 6560, y |-> 352, collected |-> FALSE, collected_timer |-> 0],
        [x |-> 6624, y |-> 192, collected |-> FALSE, collected_timer |-> 0],
        [x |-> 6688, y |-> 256, collected |-> FALSE, collected_timer |-> 0],
        [x |-> 6752, y |-> 320, collected |-> FALSE, collected_timer |-> 0],
        [x |-> 6816, y |-> 384, collected |-> FALSE, collected_timer |-> 0],
        [x |-> 6880, y |-> 224, collected |-> FALSE, collected_timer |-> 0],
        [x |-> 6944, y |-> 288, collected |-> FALSE, collected_timer |-> 0],
        [x |-> 7008, y |-> 352, collected |-> FALSE, collected_timer |-> 0],
        [x |-> 7072, y |-> 192, collected |-> FALSE, collected_timer |-> 0],
        [x |-> 7136, y |-> 256, collected |-> FALSE, collected_timer |-> 0],
        [x |-> 7200, y |-> 320, collected |-> FALSE, collected_timer |-> 0],
        [x |-> 7264, y |-> 384, collected |-> FALSE, collected_timer |-> 0],
        [x |-> 7328, y |-> 224, collected |-> FALSE, collected_timer |-> 0],
        [x |-> 7392, y |-> 288, collected |-> FALSE, collected_timer |-> 0],
        [x |-> 7456, y |-> 352, collected |-> FALSE, collected_timer |-> 0],
        [x |-> 7520, y |-> 192, collected |-> FALSE, collected_timer |-> 0],
        [x |-> 7584, y |-> 256, collected |-> FALSE, collected_timer |-> 0],
        [x |-> 7648, y |-> 320, collected |-> FALSE, collected_timer |-> 0],
        [x |-> 7712, y |-> 384, collected |-> FALSE, collected_timer |-> 0],
        [x |-> 7776, y |-> 224, collected |-> FALSE, collected_timer |-> 0],
        [x |-> 7840, y |-> 288, collected |-> FALSE, collected_timer |-> 0],
        [x |-> 7904, y |-> 352, collected |-> FALSE, collected_timer |-> 0],
        [x |-> 7968, y |-> 192, collected |-> FALSE, collected_timer |-> 0],
        [x |-> 8032, y |-> 256, collected |-> FALSE, collected_timer |-> 0],
        [x |-> 8096, y |-> 320, collected |-> FALSE, collected_timer |-> 0],
        [x |-> 8160, y |-> 384, collected |-> FALSE, collected_timer |-> 0],
        [x |-> 8224, y |-> 224, collected |-> FALSE, collected_timer |-> 0],
        [x |-> 8288, y |-> 288, collected |-> FALSE, collected_timer |-> 0],
        [x |-> 8352, y |-> 352, collected |-> FALSE, collected_timer |-> 0],
        [x |-> 8416, y |-> 192, collected |-> FALSE, collected_timer |-> 0],
        [x |-> 8480, y |-> 256, collected |-> FALSE, collected_timer |-> 0],
        [x |-> 8544, y |-> 320, collected |-> FALSE, collected_timer |-> 0],
        [x |-> 8608, y |-> 384, collected |-> FALSE, collected_timer |-> 0],
        [x |-> 8672, y |-> 224, collected |-> FALSE, collected_timer |-> 0],
        [x |-> 8736, y |-> 288, collected |-> FALSE, collected_timer |-> 0],
        [x |-> 8800, y |-> 352, collected |-> FALSE, collected_timer |-> 0],
        [x |-> 8864, y |-> 192, collected |-> FALSE, collected_timer |-> 0],
        [x |-> 8928, y |-> 256, collected |-> FALSE, collected_timer |-> 0] >>,
     {<<1037, 0>>, <<1038, 0>>, <<1039, 0>>, <<1040, 0>>, <<1041, 0>>, <<1050, 0>>, <<1051, 0>>, <<1058, 0>>, <<1059, 0>>, <<1060, 0>>, <<1061, 0>>, <<1063, 0>>, <<1064, 0>>, <<1065, 0>>, <<1066, 0>>, <<1068, 0>>, <<1069, 0>>, <<1070, 0>>, <<1071, 0>>, <<1075, 0>>, <<1076, 0>>, <<1077, 0>>, <<1078, 0>>, <<1079, 0>>, <<1080, 0>>, <<1081, 0>>, <<1083, 0>>, <<1084, 0>>, <<1085, 0>>, <<1086, 0>>, <<1088, 0>>, <<1089, 0>>, <<1090, 0>>, <<1091, 0>>, <<1093, 0>>, <<1094, 0>>, <<1095, 0>>, <<1096, 0>>, <<1100, 0>>, <<1101, 0>>, <<1102, 0>>, <<1103, 0>>, <<1104, 0>>, <<1105, 0>>, <<1106, 0>>, <<1108, 0>>, <<1109, 0>>, <<1110, 0>>, <<1111, 0>>, <<1113, 0>>, <<1114, 0>>, <<1115, 0>>, <<1116, 0>>, <<1118, 0>>, <<1119, 0>>, <<1120, 0>>, <<1121, 0>>, <<1125, 0>>, <<1126, 0>>, <<1127, 0>>, <<1128, 0>>, <<1129, 0>>, <<1130, 0>>, <<1131, 0>>, <<1133, 0>>, <<1134, 0>>, <<1135, 0>>, <<1136, 0>>, <<1138, 0>>, <<1139, 0>>, <<1140, 0>>, <<1141, 0>>, <<1143, 0>>, <<1144, 0>>, <<1145, 0>>, <<1146, 0>>, <<1150, 0>>, <<1151, 0>>, <<1152, 0>>, <<1153, 0>>, <<1154, 0>>, <<1155, 0>>, <<1156, 0>>, <<1158, 0>>, <<1159, 0>>, <<1160, 0>>, <<1161, 0>>, <<1163, 0>>, <<1164, 0>>, <<1165, 0>>, <<1166, 0>>, <<1168, 0>>, <<1169, 0>>, <<1170, 0>>, <<1171, 0>>, <<1177, 0>>, <<1178, 0>>, <<1179, 0>>, <<1180, 0>>}),
   camera_x |-> 152756, frame |-> 60143, running |-> TRUE]

\* the states the exploration starts from
NearStates ==
  {Constructed, CpLanded, CpStomp, CpHurt, CpFalling, CpWalking,
   CpBump1, CpBump2, CpBump3, CpTwoGoombas,
   CpLedge, CpCoinAhead, CpCoinFading, CpTimeUp}

Started(g, n) ==
  /\ state = g.state
  /\ current_world = g.current_world
  /\ current_level = g.current_level
  /\ mario = g.mario
  /\ level = g.level
  /\ camera_x = g.camera_x
  /\ frame = g.frame
  /\ running = g.running
  /\ keys = NoKeys
  /\ events = <<>>
  /\ seed = 0
  /\ ticks = 0
  /\ limit = n

Init == \E g \in NearStates : Started(g, MaxTicks)

\* start_level draws from the random generator when it builds a level other
\* than 1-1 and 1-2; r is the game after an iteration that started from g
Drew(g, r) ==
  /\ r.state = PLAYING
  /\ r.level.time = LEVEL_TIME
  /\ (r.level.world - 1) * LEVELS_PER_WORLD + r.level.level > 2
  /\ r.mario.score = 0
  /\ r.mario.coins = 0
  /\ r.camera_x = 0
  /\ \A i \in 1..Len(r.level.blocks) : ~r.level.blocks[i].hit

\* while self.running: one iteration with the events evs and the held keys k
Step(evs, k) ==
  /\ ticks < limit
  /\ \E r0 \in {Iteration(Game, evs, k, 0)} :
       \E tp \in (IF Drew(Game, r0) THEN Tapes ELSE {0}) :
          \E g \in {IF tp = 0 THEN r0 ELSE Iteration(Game, evs, k, tp)} :
            /\ state' = g.state
            /\ current_world' = g.current_world
            /\ current_level' = g.current_level
            /\ mario' = g.mario
            /\ level' = g.level
            /\ camera_x' = g.camera_x
            /\ frame' = g.frame
            /\ running' = g.running
            /\ seed' = tp
  /\ keys' = k
  /\ events' = evs
  /\ ticks' = ticks + 1
  /\ limit' = limit

\* an iteration with no event
Tick ==
  /\ running
  /\ \E k \in HeldKeys : Step(<<>>, k)

\* an iteration that gets KEYDOWN K_SPACE
KeySpace ==
  /\ running
  /\ \E k \in HeldKeys : Step(<<"SPACE">>, k)

\* an iteration that gets KEYDOWN K_ESCAPE
KeyEscape ==
  /\ running
  /\ \E k \in HeldKeys : Step(<<"ESCAPE">>, k)

\* an iteration that gets QUIT
Quit ==
  /\ running
  /\ \E k \in HeldKeys : Step(<<"QUIT">>, k)

Next == Tick \/ KeySpace \/ KeyEscape \/ Quit

Spec == Init /\ [][Next]_vars

\* the states late in the game that the second exploration starts from
FarStates ==
  {CpGoal11, CpGoal12, CpGoal14, CpWorldMap21, CpGoal24, CpGoal84, CpCoin99,
   CpBlock99}

InitFar == \E g \in FarStates : Started(g, MaxFarTicks)

\* the iterations of run from the states late in the game
SpecFar == InitFar /\ [][Next]_vars

\* ------------------------------------------------ the iteration just taken
\* In a step, the unprimed variables are the game before the iteration and
\* keys', events' and seed' the input it read; the game at each point of the
\* iteration follows from them.

\* an iteration was taken
Stepped == ticks' = ticks + 1

\* the game after the event loop
AtEvents == Polled(Game, events', seed')

\* the iteration ran the body of `if self.state == GameState.PLAYING`
Simulated == Stepped /\ AtEvents.state = PLAYING

\* the game at the call of handle_collisions
AtCollisions == Moved(AtEvents, keys', seed')

\* the game at the fall check that ends handle_collisions
AtFallCheck == AfterGoal(AtCollisions, seed')

\* the game after the iteration
GameAfter ==
  [state |-> state', current_world |-> current_world',
   current_level |-> current_level', mario |-> mario', level |-> level',
   camera_x |-> camera_x', frame |-> frame', running |-> running']

\* ------------------------------------------------------------------ claims
\* the player of game g is below the death threshold
Fell(g) == g.mario.y > Px(SCREEN_HEIGHT + FALL_MARGIN)

\* C1: when the player falls below SCREEN_HEIGHT + 100 in Playing with at
\* least two lives, the tick ends with one life fewer, in Playing, with the
\* same world and level indices and a freshly constructed Level.
C1_FallTakesOneLife ==
  [][Simulated =>
       \A g \in {AtFallCheck} :
         (Fell(g) /\ g.state = PLAYING /\ g.mario.lives >= 2)
           => /\ mario'.lives = g.mario.lives - 1
              /\ state' = PLAYING
              /\ current_world' = g.current_world
              /\ current_level' = g.current_level
              /\ level' = Level(current_world', current_level', seed')]_vars

\* the live enemies that mario_rect overlaps in the enemy loop of the game
\* g, taken at the call of handle_collisions
EnemiesMet(g) ==
  {i \in 1..Len(g.level.enemies) :
     /\ g.level.enemies[i].alive
     /\ colliderect(MarioRect(g.mario), EnemyRect(g.level.enemies[i]))}

\* the first live enemy that mario_rect overlaps in the enemy loop of the
\* game g, taken at the call of handle_collisions (0 when there is none)
FirstEnemy(g) ==
  LET es == g.level.enemies
      met == {i \in 1..Len(es) :
                es[i].alive /\ colliderect(MarioRect(g.mario), EnemyRect(es[i]))}
  IN IF met = {} THEN 0 ELSE CHOOSE i \in met : \A j \in met : i <= j

\* the branch the enemy loop takes for that enemy
FirstContact(g) ==
  IF FirstEnemy(g) = 0 THEN "none"
  ELSE EnemyContact(AfterBlocks(g).mario, g.level.enemies[FirstEnemy(g)])

\* C4: when the player overlaps a live enemy while descending with its top
\* above the enemy's, then after the enemy pass of that tick the enemy is
\* dead, vy is -10, the score is 100 higher and lives, size and
\* invincibility are unchanged.
C4_StompKillsAndBounces ==
  [][Simulated =>
       \A g \in {AtCollisions} : \A i \in {FirstEnemy(g)} :
         \A b \in {AfterBlocks(g)} :
           (i > 0 /\ EnemyContact(b.mario, g.level.enemies[i]) = "stomp")
             => \A a \in {AfterEnemies(g, seed')} :
                  /\ ~a.level.enemies[i].alive
                  /\ a.mario.vy = STOMP_BOUNCE
                  /\ a.mario.score = b.mario.score + 100
                  /\ a.mario.lives = b.mario.lives
                  /\ a.mario.big = b.mario.big
                  /\ a.mario.invincible = b.mario.invincible]_vars

\* C5: with no invincibility and no star power, a non-stomp overlap of a
\* small player with an enemy leaves the player, after the enemy pass of
\* that tick, with exactly one life fewer.
C5_HurtTakesOneLife ==
  [][Simulated =>
       \A g \in {AtCollisions} :
         FirstContact(g) = "hurt"
           => AfterEnemies(g, seed').mario.lives
                = AfterBlocks(g).mario.lives - 1]_vars

\* the player of game g rests on a tile top: grounded, vy = 0, and its bottom
\* is exactly the top of a tile under it
Resting(g) ==
  /\ g.state = PLAYING
  /\ g.mario.on_ground
  /\ g.mario.vy = 0
  /\ \E i \in 1..Len(g.level.blocks) :
       LET br == BlockRect(g.level.blocks[i])
       IN /\ g.mario.y + Px(MARIO_HEIGHT) = Px(br.top)
          /\ g.mario.x < Px(br.right)
          /\ g.mario.x + Px(MARIO_WIDTH) > Px(br.left)

\* C7: a player resting exactly on a tile top with no directional or jump
\* input has vy = 0 and is grounded at the end of the next tick (and so of
\* every later one).
C7_RestingStaysGrounded ==
  [][(Resting(Game) /\ Simulated /\ keys' = NoKeys /\ events' = <<>>)
       => (mario'.vy = 0 /\ mario'.on_ground)]_vars

\* C8: at the end of every tick the vertical velocity of the player and of
\* every enemy is at most TERMINAL_VELOCITY.
C8_TerminalVelocity ==
  /\ mario.vy <= TERMINAL_VELOCITY
  /\ \A i \in 1..Len(level.enemies) : level.enemies[i].vy <= TERMINAL_VELOCITY

\* a tick has ended with the player falling at exactly TERMINAL_VELOCITY
C8_Clamped ==
  /\ ticks > 0
  /\ state = PLAYING
  /\ ~mario.on_ground
  /\ mario.vy = TERMINAL_VELOCITY

\* the passes of the block loop of handle_collisions called on the game g
Passes(g) == BlockPasses(CollisionStart(g), MarioRect(g.mario), 1)

\* the overlaps of mario_rect with the tile of pass p
PassOverlaps(rect, p) == Overlaps(rect, BlockRect(p.g.level.blocks[p.j]))

\* the overlaps of the spec's example: left 5, right 27, top 2, bottom 30
ExampleOverlaps == [left |-> 5, right |-> 27, top |-> 2, bottom |-> 30]

\* C9: for every tile the player's box overlaps, when the top overlap is the
\* smallest of the four and vy > 0, the pass for that tile puts the player's
\* bottom on the tile's top, zeroes vy and grounds the player; the overlaps
\* (5, 27, 2, 30) with vy > 0 select the top axis.
C9_TopAxisChosen ==
  [][Simulated =>
       /\ \A g \in {AtCollisions} : \A ps \in {Passes(g)} :
            \A n \in 1..Len(ps) :
              LET rect == MarioRect(g.mario)
                  o == PassOverlaps(rect, ps[n])
              IN (MinOverlap(o) = o.top /\ ps[n].g.mario.vy > 0)
                   => \A a \in {MarioBlock(ps[n].g, rect, ps[n].j)} :
                        /\ a.mario.y + Px(MARIO_HEIGHT)
                             = Px(BlockRect(ps[n].g.level.blocks[ps[n].j]).top)
                        /\ a.mario.vy = 0
                        /\ a.mario.on_ground
       /\ \A vx \in {-WALK_SPEED, 0, WALK_SPEED} :
            BlockAxis(ExampleOverlaps, vx, GRAVITY) = "top"]_vars

\* a tick has ended with the player put on a tile: grounded with vy = 0 and
\* its bottom on the tile's top
C9_Landed ==
  /\ ticks > 0
  /\ Resting(Game)

\* C11: a SPACE keypress takes Menu to WorldMap; from WorldMap it enters
\* Playing with a freshly constructed Level for the current indices, the
\* player at its spawn state and the camera at 0; in Playing it leaves the
\* mode as it is.
C11_StartInput ==
  [][(Stepped /\ events' = <<"SPACE">>) =>
       \A g \in {AtEvents} :
         /\ state = MENU =>
              /\ g.state = WORLD_MAP
              /\ state' = WORLD_MAP
         /\ state = WORLD_MAP =>
              /\ g.state = PLAYING
              /\ g.level = Level(current_world, current_level, seed')
              /\ g.mario = MarioReset
              /\ g.camera_x = 0
              /\ g.current_world = current_world
              /\ g.current_level = current_level
              /\ state' = PLAYING
         /\ state = PLAYING => g.state = PLAYING]_vars

\* a SPACE keypress on the world map has just started a level
C11_Started ==
  /\ events = <<"SPACE">>
  /\ state = PLAYING
  /\ frame = 2
  /\ level.time = LEVEL_TIME
  /\ mario.x = MarioReset.x
  /\ camera_x = 0

\* C12: an ESC keypress ends the tick in Menu whatever the mode was, and no
\* simulation step runs in that tick: player, level, camera and indices are
\* what they were.
C12_CancelInput ==
  [][(Stepped /\ events' = <<"ESCAPE">>) =>
       /\ state' = MENU
       /\ mario' = mario
       /\ level' = level
       /\ camera_x' = camera_x
       /\ current_world' = current_world
       /\ current_level' = current_level]_vars

\* ESC has just been pressed during play: the mode is Menu and the
\* abandoned level is still there
C12_Abandoned ==
  /\ events = <<"ESCAPE">>
  /\ state = MENU
  /\ level # NoLevel
  /\ mario # MarioReset

\* the keys of a jump: SPACE alone
SpaceHeld == [NoKeys EXCEPT !.space = TRUE]

\* the least y of the player m on its way up under Mario.update alone (no
\* collision), with the keys k held on every tick until vy is no longer
\* negative
RECURSIVE PeakY(_, _)
PeakY(m, k) == IF m.vy >= 0 THEN m.y ELSE Min2(m.y, PeakY(MarioUpdate(m, k), k))

\* the player has taken off in the tick that just ended
TookOff ==
  /\ state = PLAYING
  /\ ~mario.on_ground
  /\ mario.jump_frames = 1
  /\ mario.vy = JUMP_POWER

\* C14: for a jump just started from the ground, with no collision on the
\* way up, the peak reached with SPACE held through the ascent is higher
\* (a smaller y) than the peak reached with SPACE released after takeoff.
C14_HoldJumpsHigher ==
  TookOff => PeakY(mario, SpaceHeld) < PeakY(mario, NoKeys)

\* the game the drawing code of the iteration just taken is given
BeforeDraw ==
  IF AtEvents.state = PLAYING THEN PlayStep(AtEvents, keys', seed') ELSE AtEvents

\* C15: drawing a frame leaves every tile (hit flag and hit_timer included),
\* enemy, coin, player and session field as it was before the draw.
C15_DrawChangesNothing ==
  [][Stepped => GameAfter = BeforeDraw]_vars

\* the pass from game b to game a resolved the vertical axis
ResolvedVertically(b, a) ==
  \/ a.mario.y # b.mario.y
  \/ a.mario.vy # b.mario.vy
  \/ a.mario.on_ground # b.mario.on_ground

\* the pass from game b to game a resolved the horizontal axis
ResolvedHorizontally(b, a) ==
  \/ a.mario.x # b.mario.x
  \/ a.mario.vx # b.mario.vx

\* C16 as stated: for every tile whose box intersects the player's box in a
\* tick, exactly one axis is resolved for that tile, never none and never
\* more than one.
C16_ExactlyOneAxis ==
  [][Simulated =>
       \A g \in {AtCollisions} : \A ps \in {Passes(g)} :
         \A n \in 1..Len(ps) :
           \A a \in {MarioBlock(ps[n].g, MarioRect(g.mario), ps[n].j)} :
             ResolvedVertically(ps[n].g, a) # ResolvedHorizontally(ps[n].g, a)]_vars

\* C16: for every tile whose box intersects the player's box in a tick, at
\* most one axis is resolved for that tile; none is resolved, and the pass
\* changes nothing of the player, when the direction test of the smallest
\* overlap fails (top with vy <= 0, bottom with vy >= 0, left or right with
\* vx = 0).
C16_AtMostOneAxis ==
  [][Simulated =>
       \A g \in {AtCollisions} : \A ps \in {Passes(g)} :
         \A n \in 1..Len(ps) :
           \A a \in {MarioBlock(ps[n].g, MarioRect(g.mario), ps[n].j)} :
             LET b == ps[n].g
                 o == PassOverlaps(MarioRect(g.mario), ps[n])
                 least == MinOverlap(o)
                 passes == \/ least = o.top /\ b.mario.vy > 0
                           \/ least = o.bottom /\ b.mario.vy < 0
                           \/ least \in {o.left, o.right} /\ b.mario.vx # 0
             IN /\ ~(ResolvedVertically(b, a) /\ ResolvedHorizontally(b, a))
                /\ passes <=> (ResolvedVertically(b, a) \/ ResolvedHorizontally(b, a))
                /\ ~passes => a.mario = b.mario]_vars

\* a tick has ended in which the walking player was stopped by a tile's side
C16_SideSnapped ==
  /\ ticks > 0
  /\ state = PLAYING
  /\ keys.right
  /\ mario.vx = 0
  /\ mario.x # MarioReset.x

\* the player dies in the iteration that polled the game e and moved it to
\* g: the countdown runs out, an enemy hurts the small unprotected player,
\* or the player is below the death threshold at the fall check
Dies(e, g, tape) ==
  \/ e.frame % FPS = 0 /\ e.level.time <= 1
  \/ FirstContact(g) = "hurt"
  \/ \E f \in {AfterGoal(g, tape)} : f.state = PLAYING /\ Fell(f)

\* C18: a life lost stays lost across the level restart: a tick in which
\* the player dies ends with fewer lives than it began with, or in GameOver
\* (so that three deaths from a fresh session end the game).
C18_LivesPersist ==
  [][Simulated =>
       \A e \in {AtEvents} : \A g \in {Moved(e, keys', seed')} :
         Dies(e, g, seed') => (mario'.lives < mario.lives \/ state' = GAME_OVER)]_vars

\* C19: an upward hit (bottom overlap smallest, vy < 0) on a tile not hit
\* before marks it hit, starts its bounce timer and awards +1 coin and +200
\* score for a question block or +50 score for a brick, which stays in the
\* level unless the player is big; an upward hit on a tile already hit
\* changes neither score, coins nor any tile.
C19_RewardOnce ==
  [][Simulated =>
       \A g \in {AtCollisions} : \A ps \in {Passes(g)} :
         \A n \in 1..Len(ps) :
           LET b == ps[n].g
               j == ps[n].j
               t == b.level.blocks[j]
               o == PassOverlaps(MarioRect(g.mario), ps[n])
           IN (MinOverlap(o) = o.bottom /\ b.mario.vy < 0)
                => \A a \in {MarioBlock(b, MarioRect(g.mario), j)} :
                     IF t.hit
                     THEN /\ a.mario.score = b.mario.score
                          /\ a.mario.coins = b.mario.coins
                          /\ a.level.blocks = b.level.blocks
                     ELSE /\ b.mario.big \/ Len(a.level.blocks) = Len(b.level.blocks)
                          /\ b.mario.big \/ a.level.blocks[j].hit
                          /\ b.mario.big \/ a.level.blocks[j].hit_timer = HIT_TIME
                          /\ t.type = "question" =>
                               /\ a.mario.coins = b.mario.coins + 1
                               /\ a.mario.score = b.mario.score + 200
                          /\ t.type = "brick" =>
                               /\ a.mario.coins = b.mario.coins
                               /\ a.mario.score = b.mario.score + 50
                               /\ b.mario.big <=>
                                    Len(a.level.blocks) < Len(b.level.blocks)]_vars

\* a tick has ended in which the player's head was stopped by a tile that
\* had been hit before
C19_HitAgain ==
  /\ ticks > 0
  /\ state = PLAYING
  /\ mario.vy = 0
  /\ ~mario.on_ground
  /\ \E i \in 1..Len(level.blocks) :
       /\ level.blocks[i].hit
       /\ level.blocks[i].hit_timer < HIT_TIME - 1
       /\ mario.y = Px(BlockRect(level.blocks[i]).bottom)
       /\ colliderect([MarioRect(mario) EXCEPT !.top = @ - 1],
                      BlockRect(level.blocks[i]))

\* the game at the goal check of handle_collisions called on the game g
AtGoalCheck(g, tape) == EnemiesBlocks(AfterCoins(g, tape))

\* C3: when the player is at or past goal_x at the goal check in Playing,
\* the level index advances: up to 4 the tick ends in Playing with a new
\* Level of the same world; past 4 the level becomes 1 and the world
\* advances, with mode WorldMap; and from world 8 the result is world 1,
\* level 1, mode Menu.
C3_GoalAdvances ==
  [][Simulated =>
       \A c \in {AtCollisions} :
         \A g \in {AtGoalCheck(c, seed')} :
           (g.state = PLAYING /\ g.mario.x >= Px(g.level.goal_x))
             => IF g.current_level < LEVELS_PER_WORLD
                THEN /\ state' = PLAYING
                     /\ current_world' = g.current_world
                     /\ current_level' = g.current_level + 1
                     /\ level' = Level(current_world', current_level', seed')
                ELSE IF g.current_world < WORLDS
                THEN /\ state' = WORLD_MAP
                     /\ current_world' = g.current_world + 1
                     /\ current_level' = 1
                ELSE /\ state' = MENU
                     /\ current_world' = 1
                     /\ current_level' = 1]_vars

\* the goal of level 8-4 has just been reached: the mode is Menu and the
\* indices are 1-1, the finished level still being the current Level
C3_GameFinished ==
  /\ ticks > 0
  /\ state = MENU
  /\ current_world = 1
  /\ current_level = 1
  /\ level.world = WORLDS
  /\ level.level = LEVELS_PER_WORLD
  /\ mario.x >= Px(level.goal_x)

\* C13: in every reachable state the world index is in 1..8 and the level
\* index is in 1..4.
C13_IndicesInRange ==
  /\ current_world \in 1..WORLDS
  /\ current_level \in 1..LEVELS_PER_WORLD

\* the goal of a fourth level has just been reached: the level index is
\* back at 1 and the world map shows the next world
C13_Wrapped ==
  /\ ticks > 0
  /\ state = WORLD_MAP
  /\ level.level = LEVELS_PER_WORLD
  /\ current_level = 1
  /\ current_world = level.world + 1

\* the enemy loop of handle_collisions called on g damages the player: the
\* first enemy met hurts it, or is stomped and a second one is met with the
\* vy of the bounce
Damaged(g) ==
  \/ FirstContact(g) = "hurt"
  \/ FirstContact(g) = "stomp" /\ Cardinality(EnemiesMet(g)) > 1

\* C17: when the small player, without invincibility or star power, is
\* damaged by an enemy and lives remain, the tick ends in Playing with the
\* same indices, the player at its spawn state and a new Level with its
\* initial tiles, every enemy alive and every coin uncollected.
C17_DamageRestartsLevel ==
  [][Simulated =>
       \A g \in {AtCollisions} :
         (g.state = PLAYING /\ Damaged(g)) =>
           \A lv \in {Level(current_world, current_level, seed')} :
             /\ state' = PLAYING
             /\ current_world' = current_world
             /\ current_level' = current_level
             /\ mario' = MarioReset
             /\ camera_x' = 0
             /\ level'.world = lv.world /\ level'.level = lv.level
             /\ level'.time = LEVEL_TIME
             /\ level'.blocks = lv.blocks
             /\ Len(level'.enemies) = Len(lv.enemies)
             /\ \A i \in 1..Len(level'.enemies) : level'.enemies[i].alive
             /\ Len(level'.coins) = Len(lv.coins)
             /\ \A i \in 1..Len(level'.coins) : ~level'.coins[i].collected]_vars

\* the tick of the enemy contact that follows CpHurt has ended: the level
\* has been restarted
C17_Restarted ==
  /\ ticks > 0
  /\ frame = CpHurt.frame + 2
  /\ events = <<>>
  /\ state = PLAYING
  /\ mario = MarioReset
  /\ level = Level(current_world, current_level, seed)

\* the coins the coin loop of handle_collisions picks up for the game g and
\* the player's rect
CoinsPicked(g, rect) ==
  {i \in 1..Len(g.level.coins) :
     /\ ~g.level.coins[i].collected
     /\ colliderect(rect, CoinRect(g.level.coins[i]))}

TilesAhead(e, blocks, types) ==
  LET probe == IF e.vx > 0 THEN e.x + Px(ENEMY_WIDTH) ELSE e.x - Px(1)
  IN {i \in 1..Len(blocks) :
        /\ blocks[i].type \in types
        /\ probe >= Px(blocks[i].x)
        /\ probe - Px(blocks[i].x) < Px(TILE_SIZE)}

\* the enemy e stands on the ground at a ledge (no ground or brick tile with
\* its top at the enemy's feet ahead) or before a wall (a brick or pipe tile
\* ahead at the enemy's height)
AtLedgeOrWall(e, blocks) ==
  /\ e.on_ground
  /\ \/ \A i \in TilesAhead(e, blocks, {"ground", "brick"}) :
          Px(blocks[i].y) # e.y + Px(ENEMY_HEIGHT)
     \/ \E i \in TilesAhead(e, blocks, {"brick", "pipe"}) :
          e.y - Px(blocks[i].y) \in 0..(Px(TILE_SIZE) - 1)

\* C21 as stated: Enemy.update never changes the sign of vx or the
\* direction field of an enemy.
C21_UpdateNeverTurns ==
  [][Simulated =>
       \A g \in {AtEvents} :
         \A i \in 1..Len(g.level.enemies) :
           \A u \in {EnemyUpdate(g.level.enemies[i], g.level.blocks)} :
             /\ u.direction = g.level.enemies[i].direction
             /\ (u.vx > 0) <=> (g.level.enemies[i].vx > 0)]_vars

\* C21 (amended): Enemy.update integrates gravity (clamped at terminal
\* velocity) and moves the enemy at constant horizontal speed; it reverses
\* vx and direction, both together, exactly when the enemy is alive, on the
\* ground and at a ledge or before a wall, and in no other case.
C21_UpdateTurnsAtLedgeOnly ==
  [][Simulated =>
       \A g \in {AtEvents} :
         \A i \in 1..Len(g.level.enemies) :
           \A e \in {g.level.enemies[i]} :
             \A u \in {EnemyUpdate(e, g.level.blocks)} :
               IF e.alive /\ AtLedgeOrWall(e, g.level.blocks)
               THEN /\ u.vx = -e.vx /\ u.direction = -e.direction
                    /\ u.x = e.x - e.vx
               ELSE /\ u.vx = e.vx /\ u.direction = e.direction
                    /\ e.alive => u.x = e.x + e.vx]_vars

\* a tick has ended in which Enemy.update turned a live enemy round at the
\* left end of the ground of level 1-1: the tile pass had nothing to reverse
\* (the enemy does not overlap a tile sideways) and the enemy now walks right
C21_TurnedAtLedge ==
  /\ ticks > 0
  /\ frame = CpLedge.frame + 1
  /\ state = PLAYING
  /\ \E i \in 1..Len(level.enemies) :
       /\ CpLedge.level.enemies[i].alive
       /\ CpLedge.level.enemies[i].direction = -1
       /\ level.enemies[i].direction = 1
       /\ level.enemies[i].vx = -CpLedge.level.enemies[i].vx
       /\ level.enemies[i].x = CpLedge.level.enemies[i].x + level.enemies[i].vx

\* the tiles the box of the enemy e overlaps at the enemy-vs-tile pass
TilesUnder(e, blocks) ==
  {j \in 1..Len(blocks) : colliderect(EnemyRect(e), BlockRect(blocks[j]))}

\* the enemy e comes down on tiles of one height: it is alive, descends,
\* overlaps at least one tile, and every tile it overlaps has the same top,
\* below the enemy's y
LandsOnTop(e, blocks) ==
  /\ e.alive
  /\ e.vy > 0
  /\ TilesUnder(e, blocks) # {}
  /\ \A j \in TilesUnder(e, blocks) : e.y < Px(blocks[j].y)
  /\ \A j, k \in TilesUnder(e, blocks) : blocks[j].y = blocks[k].y

\* C22: in the enemy-vs-tile pass a descending enemy whose overlaps are all
\* top overlaps, on one tile or on several tiles of the same height, is
\* snapped onto the tile top with vy = 0 and grounded, and keeps its
\* horizontal position, its vx and its direction.
C22_LandingKeepsDirection ==
  [][Simulated =>
       \A c \in {AtCollisions} :
         \A g \in {AfterCoins(c, seed')} :
           \A r \in {EnemiesBlocks(g)} :
             \A i \in 1..Len(g.level.enemies) :
               \A e \in {g.level.enemies[i]} :
                 LandsOnTop(e, g.level.blocks) =>
                   /\ \A j \in TilesUnder(e, g.level.blocks) :
                        r.level.enemies[i].y =
                          Px(g.level.blocks[j].y - ENEMY_HEIGHT)
                   /\ r.level.enemies[i].vy = 0
                   /\ r.level.enemies[i].on_ground
                   /\ r.level.enemies[i].x = e.x
                   /\ r.level.enemies[i].vx = e.vx
                   /\ r.level.enemies[i].direction = e.direction]_vars

\* the positions of the list coins that the coin loop keeps, in order: those
\* of the coins that are not collected with their fade timer run out
KeptCoins(coins) ==
  SelectSeq([i \in 1..Len(coins) |-> i],
            LAMBDA i : ~(coins[i].collected
                         /\ coins[i].collected_timer >= COIN_FADE))

\* C23: in a Playing tick, Coin.update leaves every coin where and as
\* collected as it was and raises the fade timer of a collected coin by one,
\* up to 30 and never beyond; the coin loop removes exactly the collected
\* coins whose timer has reached 30, never turns a collected coin
\* uncollected, and awards 10 points and one coin for each coin it turns
\* collected (timer 0) and nothing for a coin collected before; so a
\* collected coin is gone from the level's coins 30 Playing ticks after its
\* pickup, and at the end of a tick no coin has a timer above 29.
C23_CoinLifecycle ==
  [][Simulated =>
       \A p \in {AtEvents} :
         \A u \in {Updated(p, keys')} :
           \A b \in {AfterEnemies(LevelTimer(u, seed'), seed')} :
             \A a \in {MarioCoins(b, MarioRect(u.mario), b.level.coins,
                                  1, <<>>)} :
               \A kept \in {KeptCoins(b.level.coins)} :
                 /\ Len(u.level.coins) = Len(p.level.coins)
                 /\ \A i \in 1..Len(p.level.coins) :
                      \A o \in {p.level.coins[i]} :
                        \A n \in {u.level.coins[i]} :
                          /\ n.x = o.x /\ n.y = o.y
                          /\ n.collected = o.collected
                          /\ n.collected_timer \in 0..COIN_FADE
                          /\ n.collected_timer =
                               IF o.collected /\ o.collected_timer < COIN_FADE
                               THEN o.collected_timer + 1
                               ELSE o.collected_timer
                          /\ ~o.collected => n.collected_timer = 0
                 /\ Len(a.level.coins) = Len(kept)
                 /\ \A k \in 1..Len(kept) :
                      \A o \in {b.level.coins[kept[k]]} :
                        \A n \in {a.level.coins[k]} :
                          /\ n.x = o.x /\ n.y = o.y
                          /\ o.collected => n = o
                          /\ ~o.collected =>
                               \/ n = o
                               \/ n.collected /\ n.collected_timer = 0
                 /\ \A picks \in
                      {Cardinality({k \in 1..Len(kept) :
                                      /\ ~b.level.coins[kept[k]].collected
                                      /\ a.level.coins[k].collected})} :
                      /\ a.mario.score = b.mario.score + 10 * picks
                      /\ a.mario.coins
                           + COINS_PER_LIFE * (a.mario.lives - b.mario.lives)
                         = b.mario.coins + picks
                 /\ state' = PLAYING =>
                      \A i \in 1..Len(level'.coins) :
                        IF level'.coins[i].collected
                        THEN level'.coins[i].collected_timer
                               \in 0..(COIN_FADE - 1)
                        ELSE level'.coins[i].collected_timer = 0]_vars

\* two ticks after CpCoinFading: the coin picked up 30 ticks before has left
\* the level's coins, the other coin is still there, and the player keeps
\* the coin count and the score of the pickup
C23_CoinGone ==
  /\ ticks > 0
  /\ frame = CpCoinFading.frame + 2
  /\ state = PLAYING
  /\ Len(level.coins) = Len(CpCoinFading.level.coins) - 1
  /\ \A i \in 1..Len(level.coins) : ~level.coins[i].collected
  /\ mario.coins = CpCoinFading.mario.coins
  /\ mario.score = CpCoinFading.mario.score

\* C24: in a Playing tick the countdown of the level changes only when the
\* tick count is a multiple of 60, and then by exactly one; when that brings
\* it to zero, one life is lost, and the mode is GameOver if no lives remain,
\* otherwise the level is restarted with the same indices and a full timer.
C24_CountdownTakesOneLife ==
  [][Simulated =>
       \A p \in {AtEvents} :
         \A u \in {Updated(p, keys')} :
           \A t \in {LevelTimer(u, seed')} :
             IF p.frame % FPS # 0 THEN t = u
             ELSE IF p.level.time - 1 > 0
             THEN t = [u EXCEPT !.level.time = p.level.time - 1]
             ELSE /\ t.mario.lives = p.mario.lives - 1
                  /\ IF p.mario.lives - 1 <= 0
                     THEN t.state = GAME_OVER
                     ELSE /\ t.state = PLAYING
                          /\ t.current_world = p.current_world
                          /\ t.current_level = p.current_level
                          /\ t.level.time = LEVEL_TIME
                          /\ t.level.blocks =
                               Level(p.current_world, p.current_level,
                                     seed').blocks]_vars

\* the score, the coin count and the lives of the player m
Totals(m) == <<m.score, m.coins, m.lives>>

\* C26: a tick in which the goal check of a Playing level finds the player
\* at or past goal_x, and a tick in which a level is entered from the world
\* map, leave the player's score, coin count and lives as they were.
C26_AdvanceKeepsTotals ==
  [][Stepped =>
       /\ Simulated /\ state = PLAYING =>
            \A c \in {AtCollisions} :
              \A g \in {AtGoalCheck(c, seed')} :
                (g.state = PLAYING /\ g.mario.x >= Px(g.level.goal_x))
                  => Totals(mario') = Totals(g.mario)
       /\ (state = WORLD_MAP /\ state' = PLAYING)
            => Totals(mario') = Totals(mario)]_vars

\* C25: at the end of every tick the player's coin count is in 0..99: the
\* hundredth coin, from whatever award, has become a life and the count has
\* started again from 0.
C25_CoinsBelowHundred ==
  mario.coins \in 0..(COINS_PER_LIFE - 1)

====
